---------------------------- MODULE Spec2Model ----------------------------
(***************************************************************************)
(* A model of the "ap" agent of dimdasci/agent-primitives: the action      *)
(* records and their memoised execute (src/ap/actions.py), the thread      *)
(* (src/ap/thread.py), the in-memory thread store (src/ap/inmemory.py),    *)
(* the driver registry (src/ap/drivers/factory.py), the agent loop         *)
(* (src/ap/agent.py), Either (src/ap/either.py), the drivers' step         *)
(* (src/ap/drivers/openai.py, anthropic.py), Config (src/ap/config.py)     *)
(* and the command line (src/ap/cli.py).                                   *)
(*                                                                         *)
(* Eleven specifications share the module:                                 *)
(*   SpecAction     one action instance that is executed repeatedly;       *)
(*   Spec           one run of agent.loop against a driver whose answers   *)
(*                  are chosen call by call;                               *)
(*   SpecLive       Spec with its scheduling (the awaited call completes); *)
(*   SpecStore      callers that create threads and add/get/clear them     *)
(*                  through ThreadInMemoryStore instances, step by step;   *)
(*   SpecEither     chains of Either.map, flat_map and fold;               *)
(*   SpecDriver     one call of a driver's step, stage by stage;           *)
(*   SpecConfig     calls of Config.set_driver and Config.get;             *)
(*   SpecIsolation  two requests with their own drivers, interleaved at    *)
(*                  the awaits of the API calls;                           *)
(*   SpecCli        one call of cli.process, the loop included;            *)
(*   SpecGo         calls of agent.go served concurrently on one store;    *)
(*   SpecRun        one call of run of the BAML variant                    *)
(*                  (src/agent_primitives/agent.py).                       *)
(*                                                                         *)
(* Strings that the code builds with f-strings are sequences of string     *)
(* tokens (the literal parts and the interpolated parts); Python values    *)
(* of type float | str | None are records with a tag.                      *)
(***************************************************************************)
EXTENDS Integers, Sequences, FiniteSets, TLC

VARIABLES
    \* ---- SpecAction: one Action instance (src/ap/actions.py)
    act,            \* the action object, its field r included
    compute_calls,  \* how many times _compute_result has run on it
    returns,        \* what each call of execute did, oldest first
    io_prompts,     \* the texts io.prompt was called with, oldest first
    \* ---- Spec: one run of agent.loop (src/ap/agent.py)
    pc,             \* "start", "top", "await", "returned", "raised"
    ctx_driver,     \* ctx.driver
    cfg_max_actions,\* what Config.get("max_actions", 10) returns
    max_actions,    \* the local of loop
    iteration,      \* the loop index
    thread,         \* the Thread object the loop was given
    thread0,        \* its action list when loop was called
    calls,          \* how many times the step function was called
    driver_log,     \* what each call returned, oldest first
    result,         \* what loop returned
    \* ---- SpecStore: ThreadInMemoryStore (src/ap/inmemory.py)
    threads,        \* the class attribute threads: id -> Thread object
    lock,           \* per instance: the caller holding self.lock, or NoOne
    heap,           \* the Thread objects created so far, by object number
    cpc,            \* per caller: where it is in its current call
    cself,          \* per caller: the instance its current call is on
    carg,           \* per caller: the argument of its current call
    cret,           \* per caller: what its last call did
    ops,            \* the completed add and clear mutations, oldest first
    nops,           \* how many calls have been started
    \* ---- SpecEither: a chain of Either method calls (src/ap/either.py)
    e_input,        \* the Either the chain starts from
    e_self,         \* the Either the next method is called on
    e_ops,          \* the method calls made, with the functions each invoked
    e_out,          \* what fold returned
    \* ---- SpecDriver: one call of a driver's step (src/ap/drivers)
    step_pc,        \* "called", "await", "returned", "raised"
    step_driver,    \* the driver whose step is called
    step_files,     \* the prompt types whose template file can be read
    step_reply,     \* what the API call did
    step_out,       \* what step returned, or the exception that left it
    \* ---- Config (src/ap/config.py)
    config,         \* Config._config: section -> key -> value
    active_driver,  \* Config._active_driver
    \* ---- SpecIsolation: requests served concurrently by one process
    req_pc,         \* per request: "new", "await", "done"
    req_driver,     \* per request: the driver it selected (ctx.driver)
    req_max_actions,\* per request: the local max_actions of its loop
    req_iteration,  \* per request: the index of its loop
    req_used,       \* per request: the step function and the model name each
                    \* of its iterations used
    \* ---- SpecCli: one call of cli.process (src/ap/cli.py)
    cli_pc,         \* "process", "go", "exit", "raised"
    cli_driver,     \* the --driver option
    cli_stored,     \* the ids of the threads added to thread_store
    cli_ret,        \* what process returned
    \* ---- SpecConfig: calls of Config.set_driver and Config.get
    cfg_calls,      \* the calls made, oldest first, with what each did
    \* ---- SpecRun: agent_primitives.agent.run (src/agent_primitives/agent.py)
    run_pc,         \* "call", "await", "returned", "raised"
    run_events,     \* thread.events: the type and the data of each event
    run_calls,      \* how many times DetermineNextStep was called
    \* ---- SpecGo: calls of agent.go on one store (src/ap/agent.py)
    go_store,       \* ctx.state.threads: id -> Thread object, 0 for no key
    go_heap,        \* the Thread objects created so far, by object number
    go              \* per call of go: where it is and what it holds

actionVars == <<act, compute_calls, returns, io_prompts>>
loopVars   == <<pc, ctx_driver, cfg_max_actions, max_actions, iteration,
                thread, thread0, calls, driver_log, result>>
storeVars  == <<threads, lock, heap, cpc, cself, carg, cret, ops, nops>>
eitherVars == <<e_input, e_self, e_ops, e_out>>
driverVars == <<step_pc, step_driver, step_files, step_reply, step_out>>
configVars == <<config, active_driver>>
requestVars == <<req_pc, req_driver, req_max_actions, req_iteration, req_used>>
cliVars    == <<cli_pc, cli_driver, cli_stored, cli_ret>>
callVars   == <<cfg_calls>>
runVars    == <<run_pc, run_events, run_calls>>
goVars     == <<go_store, go_heap, go>>
vars       == <<actionVars, loopVars, storeVars, eitherVars, driverVars,
                configVars, requestVars, cliVars, callVars, runVars, goVars>>

\* the variables each specification leaves alone
exceptAction == <<loopVars, storeVars, eitherVars, driverVars,
                  configVars, requestVars, cliVars, callVars, runVars, goVars>>
exceptLoop   == <<actionVars, storeVars, eitherVars, driverVars,
                  configVars, requestVars, cliVars, callVars, runVars, goVars>>
exceptStore  == <<actionVars, loopVars, eitherVars, driverVars,
                  configVars, requestVars, cliVars, callVars, runVars, goVars>>
exceptEither == <<actionVars, loopVars, storeVars, driverVars,
                  configVars, requestVars, cliVars, callVars, runVars, goVars>>
exceptDriver == <<actionVars, loopVars, storeVars, eitherVars,
                  configVars, requestVars, cliVars, callVars, runVars, goVars>>
exceptIsolation == <<actionVars, loopVars, storeVars, eitherVars, driverVars,
                     cliVars, callVars, runVars, goVars>>
exceptCli == <<actionVars, storeVars, eitherVars, driverVars, requestVars,
               callVars, runVars, goVars>>
exceptGo == <<actionVars, loopVars, storeVars, eitherVars, driverVars,
              configVars, requestVars, cliVars, callVars, runVars>>
exceptRun == <<actionVars, loopVars, storeVars, eitherVars, driverVars,
               configVars, requestVars, cliVars, callVars, goVars>>
exceptConfig == <<actionVars, loopVars, storeVars, eitherVars, driverVars,
                  requestVars, cliVars, runVars, goVars>>

-----------------------------------------------------------------------------
(* Python values: None, a number, a string.  A number is the fraction n/d   *)
(* in lowest terms with d > 0, so that a / b is exact.                      *)

None == [t |-> "none", n |-> 0, d |-> 1, s |-> ""]
Str(s) == [t |-> "str", n |-> 0, d |-> 1, s |-> s]

Abs(x) == IF x < 0 THEN -x ELSE x

RECURSIVE Gcd(_, _)
Gcd(x, y) == IF y = 0 THEN x ELSE Gcd(y, x % y)

\* the number n/d, d # 0, normalised
Frac(n, d) ==
    LET g == Gcd(Abs(n), Abs(d))
        sgn == IF d < 0 THEN -1 ELSE 1
    IN  [t |-> "num", n |-> sgn * (n \div g), d |-> sgn * (d \div g), s |-> ""]

Num(n) == [t |-> "num", n |-> n, d |-> 1, s |-> ""]


-----------------------------------------------------------------------------
(* Actions (src/ap/actions.py).  An action is a record with the fields of   *)
(* all six classes; a field a class does not have keeps its default.  The   *)
(* operands of the model are whole numbers; chain_of_thought, which no      *)
(* code path reads, is left out.                                            *)

Sentinel == Str("Not yet calculated")

MkAction(cls, a, b, request, output) ==
    [cls |-> cls, a |-> a, b |-> b, request |-> request, output |-> output,
     r |-> None]

Add(a, b)      == MkAction("Add", a, b, "", None)
Subtract(a, b) == MkAction("Subtract", a, b, "", None)
Multiply(a, b) == MkAction("Multiply", a, b, "", None)
Divide(a, b)   == MkAction("Divide", a, b, "", None)
AskUser(req)   == MkAction("AskUser", 0, 0, req, None)
Done(output)   == MkAction("Done", 0, 0, "", output)

\* Action.result
Result(action) == IF action.r # None THEN action.r ELSE Sentinel

\* str(x) of a float, as tokens: "2.0" for 2.0; a fraction that is no whole
\* number is written n/d in place of its decimal digits; the sign of a zero
\* is not modelled
FloatText(n, d) ==
    IF d = 1 THEN <<ToString(n), ".0">> ELSE <<ToString(n), "/", ToString(d)>>

\* str(x) of a value in an f-string
ValueText(v) ==
    CASE v.t = "none" -> <<"None">>
      [] v.t = "str"  -> <<v.s>>
      [] v.t = "num"  -> FloatText(v.n, v.d)

\* <Class>.__str__
ActionStr(action) ==
    CASE action.cls \in {"Add", "Subtract", "Multiply", "Divide"} ->
            <<action.cls, "(a=">> \o FloatText(action.a, 1) \o <<", b=">>
            \o FloatText(action.b, 1) \o <<"), result=">>
            \o ValueText(Result(action)) \o <<")">>
      [] action.cls = "AskUser" ->
            <<"RequestUserInput(request=", action.request, "), result=">>
            \o ValueText(Result(action)) \o <<")">>
      [] action.cls = "Done" ->
            <<"Done(output=">> \o ValueText(action.output) \o <<")">>

\* The capabilities passed to execute as **kwargs: only "io" is ever read.
\* io.prompt(text) returns io.answer whatever the text (MockTyper.prompt).
NoIO == [has_io |-> FALSE, answer |-> ""]
IO(answer) == [has_io |-> TRUE, answer |-> answer]

Returned(v) == [raised |-> FALSE, err |-> "", value |-> v]
Raised(e)   == [raised |-> TRUE, err |-> e, value |-> None]

DivisionByZero == "Division by zero is not allowed."
MissingIO      == "IO object must be provided to execute AskUser action"

\* a _compute_result whose Divide gives infinity for a zero divisor
ComputeResultInf(action, kwargs) ==
    CASE action.cls = "Add"      -> Returned(Num(action.a + action.b))
      [] action.cls = "Subtract" -> Returned(Num(action.a - action.b))
      [] action.cls = "Multiply" -> Returned(Num(action.a * action.b))
      [] action.cls = "Divide"   ->
            IF action.b = 0 THEN Returned(Str("inf"))
            ELSE Returned(Frac(action.a, action.b))
      [] action.cls = "AskUser"  ->
            IF ~kwargs.has_io THEN Raised(MissingIO)
            ELSE Returned(Str(kwargs.answer))
      [] action.cls = "Done"     -> Returned(action.output)

\* a _compute_result whose Subtract takes a from b
ComputeResultSwapped(action, kwargs) ==
    CASE action.cls = "Add"      -> Returned(Num(action.a + action.b))
      [] action.cls = "Subtract" -> Returned(Num(action.b - action.a))
      [] action.cls = "Multiply" -> Returned(Num(action.a * action.b))
      [] action.cls = "Divide"   ->
            IF action.b = 0 THEN Raised(DivisionByZero)
            ELSE Returned(Frac(action.a, action.b))
      [] action.cls = "AskUser"  ->
            IF ~kwargs.has_io THEN Raised(MissingIO)
            ELSE Returned(Str(kwargs.answer))
      [] action.cls = "Done"     -> Returned(action.output)

\* <Class>._compute_result(**kwargs)
ComputeResult(action, kwargs) ==
    CASE action.cls = "Add"      -> Returned(Num(action.a + action.b))
      [] action.cls = "Subtract" -> Returned(Num(action.a - action.b))
      [] action.cls = "Multiply" -> Returned(Num(action.a * action.b))
      [] action.cls = "Divide"   ->
            IF action.b = 0 THEN Raised(DivisionByZero)
            ELSE Returned(Frac(action.a, action.b))
      [] action.cls = "AskUser"  ->
            IF ~kwargs.has_io THEN Raised(MissingIO)
            ELSE Returned(Str(kwargs.answer))
      [] action.cls = "Done"     -> Returned(action.output)

\* whether _compute_result gets as far as calling io.prompt
Prompts(action, kwargs) == action.cls = "AskUser" /\ kwargs.has_io

\* an execute that computes on every call
NeedsComputeAlways(action) == TRUE

\* Action.execute: "if self.r is None"
NeedsCompute(action) == action.r = None

\* Action.execute(**kwargs): what the call does (out), the object afterwards
\* (action), whether _compute_result ran and whether the user was prompted.
Execute(action, kwargs) ==
    IF NeedsCompute(action)
    THEN LET c == ComputeResult(action, kwargs)
         IN  [out      |-> c,
              action   |-> IF c.raised THEN action
                           ELSE [action EXCEPT !.r = c.value],
              computed |-> TRUE,
              prompted |-> Prompts(action, kwargs)]
    ELSE [out      |-> Returned(action.r),
          action   |-> action,
          computed |-> FALSE,
          prompted |-> FALSE]

-----------------------------------------------------------------------------
(* Either (src/ap/either.py), Thread (src/ap/thread.py), the registry       *)
(* (src/ap/drivers/factory.py)                                              *)

NoAction == MkAction("", 0, 0, "", None)

Left(e)  == [tag |-> "Left", error |-> e, value |-> NoAction]
Right(v) == [tag |-> "Right", error |-> <<>>, value |-> v]
NoResult == [tag |-> "none", error |-> <<>>, value |-> NoAction]

\* isinstance(x, Left)
IsLeft(x) == x.tag = "Left"

\* one invocation of a function handed to map, flat_map or fold: the function
\* and the value or the error it was called with
Invocation(func, arg, err) == [f |-> func, arg |-> arg, err |-> err]

\* the functions handed to map: lambda x: x * 2, lambda x: x + 1, lambda x: -x
Apply(func, x) ==
    CASE func = "double" -> Num(x.n * 2)
      [] func = "incr"   -> Num(x.n + 1)
      [] func = "negate" -> Num(-x.n)

\* the functions handed to flat_map: lambda x: Right(x * 2),
\* lambda x: Left("converted to error"), and one that fails on some values only
ApplyK(func, x) ==
    CASE func = "right_double" -> Right(Num(x.n * 2))
      [] func = "to_error"     -> Left(<<"converted to error">>)
      [] func = "positive"     ->
            IF x.n > 0 THEN Right(x) ELSE Left(<<"not positive: ", ToString(x.n)>>)

\* the on_left handlers handed to fold: lambda e: 1, lambda e: len(e)
OnLeftApply(handler, error) ==
    CASE handler = "one"    -> Num(1)
      [] handler = "length" -> Num(Len(error))

\* the on_right handlers handed to fold: lambda v: 0, lambda v: v
OnRightApply(handler, value) ==
    CASE handler = "zero" -> Num(0)
      [] handler = "same" -> value

\* The methods: what the call returns (out) and the invocations it makes of
\* the functions it was handed (calls).

\* Left.map: return self
LeftMap(self, func) == [out |-> self, calls |-> <<>>]

\* Left.flat_map: return self
LeftFlatMap(self, func) == [out |-> self, calls |-> <<>>]

\* a Left.fold that calls both handlers
LeftFoldBoth(self, on_left, on_right) ==
    [out   |-> OnLeftApply(on_left, self.error),
     calls |-> <<Invocation(on_right, None, self.error),
                 Invocation(on_left, None, self.error)>>]

\* Left.fold: return on_left(self.error)
LeftFold(self, on_left, on_right) ==
    [out   |-> OnLeftApply(on_left, self.error),
     calls |-> <<Invocation(on_left, None, self.error)>>]

\* Right.map: return Right(func(self.value))
RightMap(self, func) ==
    [out   |-> Right(Apply(func, self.value)),
     calls |-> <<Invocation(func, self.value, <<>>)>>]

\* a Right.flat_map that wraps what func returns in a Right
RightFlatMapNested(self, func) ==
    [out   |-> Right(ApplyK(func, self.value)),
     calls |-> <<Invocation(func, self.value, <<>>)>>]

\* Right.flat_map: return func(self.value)
RightFlatMap(self, func) ==
    [out   |-> ApplyK(func, self.value),
     calls |-> <<Invocation(func, self.value, <<>>)>>]

\* Right.fold: return on_right(self.value)
RightFold(self, on_left, on_right) ==
    [out   |-> OnRightApply(on_right, self.value),
     calls |-> <<Invocation(on_right, self.value, <<>>)>>]

\* e.map(func), e.flat_map(func), e.fold(on_left, on_right): the method of
\* the class of e
EitherMap(self, func) ==
    IF self.tag = "Right" THEN RightMap(self, func) ELSE LeftMap(self, func)

EitherFlatMap(self, func) ==
    IF self.tag = "Right" THEN RightFlatMap(self, func)
    ELSE LeftFlatMap(self, func)

EitherFold(self, on_left, on_right) ==
    IF self.tag = "Right" THEN RightFold(self, on_left, on_right)
    ELSE LeftFold(self, on_left, on_right)

MkThread(id, query, actions) == [id |-> id, query |-> query, actions |-> actions]

\* a Thread.add that puts the action first instead of last
ThreadAddFront(th, action) == [th EXCEPT !.actions = <<action>> \o @]

\* a Thread.add that replaces the history by the new action
ThreadAddReplace(th, action) == [th EXCEPT !.actions = <<action>>]

\* Thread.add: self.actions.append(action); return self
ThreadAdd(th, action) == [th EXCEPT !.actions = Append(@, action)]

\* DRIVERS
DRIVERS == {"openai", "anthropic"}

\* get_driver(driver_name) raises ValueError for a name that is not registered
GetDriverRaises(driver_name) == driver_name \notin DRIVERS

-----------------------------------------------------------------------------
(* The agent loop (src/ap/agent.py)                                         *)

\* a loop that runs one iteration too many
HasIterationInclusive(i, n) == i <= n

\* range(max_actions): whether the for loop has another iteration
HasIteration(i, n) == i < n

\* execute_action: io=ctx.cli for an AskUser, no capability otherwise
KwargsFor(action, answer) == IF action.cls = "AskUser" THEN IO(answer) ELSE NoIO

\* a test for the terminal action that takes AskUser for terminal too
IsDoneOrAskUser(action) == action.cls \in {"Done", "AskUser"}

\* isinstance(typed_action, actions.Done)
IsDone(action) == action.cls = "Done"

\* a loop that returns the text it logs instead of the driver's message
DriverFailureLogged(action_result) ==
    Left(<<"Error determining next action: ">> \o action_result.error)

\* "return action_result" for a Left from the driver
DriverFailure(action_result) == action_result

\* an error message that leaves the class name out
ExecErrorMsgNoClass(cls, err) == <<"Error executing action: ", err>>

\* f"Error executing action {typed_action.__class__.__name__}: {str(e)}"
ExecErrorMsg(cls, err) == <<"Error executing action ", cls, ": ", err>>

\* f"Exceeded maximum of {max_actions} actions without reaching completion"
ExceededMsg(n) ==
    <<"Exceeded maximum of ", ToString(n), " actions without reaching completion">>

\* f"Unknown driver: {driver_name}. Available drivers: {list(DRIVERS.keys())}"
UnknownDriverMsg(name) ==
    <<"Unknown driver: ", name, ". Available drivers: ", "['openai', 'anthropic']">>

-----------------------------------------------------------------------------
(* The drivers (src/ap/drivers/openai.py, src/ap/drivers/anthropic.py).     *)
(* A parsed JSON object is a record: whether it has the key "action" and    *)
(* its value, whether it has the key "arguments" and its value.  The value  *)
(* of "arguments" is a record with one field for each key the action        *)
(* classes read, Absent standing for a key that is not there.               *)

Absent == [t |-> "absent", n |-> 0, d |-> 1, s |-> ""]

\* a JSON object of arguments, and a value of "arguments" that is no object
Arguments(a, b, request, output, r) ==
    [is_dict |-> TRUE, a |-> a, b |-> b, request |-> request,
     output |-> output, r |-> r]
EmptyDict == Arguments(Absent, Absent, Absent, Absent, Absent)
NotADict  == [EmptyDict EXCEPT !.is_dict = FALSE]

JsonObj(has_action, action, has_arguments, arguments) ==
    [has_action |-> has_action, action |-> action,
     has_arguments |-> has_arguments, arguments |-> arguments]
NoJson == JsonObj(FALSE, "", FALSE, EmptyDict)

\* actions.get_args(actions.Actions): the names of the classes of the union
ActionClasses == <<"Add", "Subtract", "Multiply", "Divide", "AskUser", "Done">>

\* pydantic's validation of one field: a: float and b: float are required
\* numbers, request: str is a required string, output and r take anything
\* and default to None.  Keys no field is named after are ignored.
IsFloat(v) == v.t = "num"
IsStr(v)   == v.t = "str"
OrNone(v)  == IF v = Absent THEN None ELSE v

\* cls(**arguments) passes validation
Validates(cls, arguments) ==
    /\ arguments.is_dict
    /\ CASE cls \in {"Add", "Subtract", "Multiply", "Divide"} ->
               IsFloat(arguments.a) /\ IsFloat(arguments.b)
         [] cls = "AskUser" -> IsStr(arguments.request)
         [] cls = "Done"    -> TRUE

\* cls(**arguments), when it passes validation
Construct(cls, arguments) ==
    LET fields ==
          CASE cls \in {"Add", "Subtract", "Multiply", "Divide"} ->
                  MkAction(cls, arguments.a.n, arguments.b.n, "", None)
            [] cls = "AskUser" ->
                  MkAction(cls, 0, 0, arguments.request.s, None)
            [] cls = "Done" ->
                  MkAction(cls, 0, 0, "", OrNone(arguments.output))
    IN  [fields EXCEPT !.r = OrNone(arguments.r)]

\* str(action_name) in the f-string of the unknown-action message
NameText(json_obj) == IF json_obj.has_action THEN json_obj.action ELSE "None"

\* the classes whose __name__ is action_name, in the order of the union
MatchingClasses(json_obj) ==
    SelectSeq(ActionClasses, LAMBDA cls : json_obj.has_action /\ cls = json_obj.action)

\* a name as a match that ignores case would read it
Canonical(name) ==
    CASE name = "add"  -> "Add"
      [] name = "DONE" -> "Done"
      [] OTHER         -> name

\* a convert_to_action that matches the name whatever its case
ConvertToActionAnyCase(json_obj) ==
    LET arguments == IF json_obj.has_arguments THEN json_obj.arguments
                     ELSE EmptyDict
        matching_classes ==
            SelectSeq(ActionClasses,
                      LAMBDA cls : json_obj.has_action
                                   /\ cls = Canonical(json_obj.action))
    IN  IF matching_classes = <<>>
        THEN Left(<<"Unknown action type: ", NameText(json_obj)>>)
        ELSE IF ~Validates(matching_classes[1], arguments)
             THEN Left(<<"Error converting to action: ", matching_classes[1]>>)
             ELSE Right(Construct(matching_classes[1], arguments))

\* convert_to_action(ctx, json_obj); the whole body is inside try/except
ConvertToAction(json_obj) ==
    LET arguments == IF json_obj.has_arguments THEN json_obj.arguments
                     ELSE EmptyDict
        matching_classes == MatchingClasses(json_obj)
    IN  IF matching_classes = <<>>
        THEN Left(<<"Unknown action type: ", NameText(json_obj)>>)
        ELSE IF ~Validates(matching_classes[1], arguments)
             THEN Left(<<"Error converting to action: ", matching_classes[1]>>)
             ELSE Right(Construct(matching_classes[1], arguments))

\* the text of a reply: nothing, text that is no JSON, the JSON text of an
\* object, or that JSON text inside a ```json fence
Content(kind, json_obj) == [kind |-> kind, json |-> json_obj]

\* json.loads(content): only JSON text parses
JsonLoads(content) == [ok |-> content.kind = "json", obj |-> content.json]

\* re.search(r"```json\s*(.*?)\s*```", content) and json.loads of the group
FencedJson(content) == [ok |-> content.kind = "fenced", obj |-> content.json]

\* what the API call of get_completion does: it raises, or it gives a
\* completion with a finish reason, a refusal text ("" for none) and a text
ApiReply(raised, err, finish_reason, refusal, content) ==
    [raised |-> raised, err |-> err, finish_reason |-> finish_reason,
     refusal |-> refusal, content |-> content]
NoReply == ApiReply(FALSE, "", "", "", Content("none", NoJson))

\* the prompt types: prompts/<driver_name>/<prompt_type>.txt
PromptTypes == {"examples", "system", "user"}

\* Config.get_prompt(driver_name, prompt_type, ...): files is the set of
\* prompt types whose file prompts/<driver_name>/<prompt_type>.txt can be read
GetPrompt(driver_name, prompt_type, files) ==
    IF prompt_type \in files
    THEN [raised |-> FALSE, error |-> <<>>]
    ELSE [raised |-> TRUE,
          error  |-> <<"Error loading prompt ", "prompts/", driver_name, "/",
                       prompt_type, ".txt">>]

\* openai.get_prompts(thread): examples, then system, then user
GetPrompts(files) ==
    LET examples      == GetPrompt("openai", "examples", files)
        system_prompt == GetPrompt("openai", "system", files)
        user_prompt   == GetPrompt("openai", "user", files)
    IN  IF examples.raised THEN examples
        ELSE IF system_prompt.raised THEN system_prompt
        ELSE user_prompt

\* get_completion(ctx, messages) of the driver, given what the API call does
GetCompletion(driver_name, reply) ==
    IF driver_name = "openai"
    THEN IF reply.raised
         THEN Left(<<"Error getting completion: ", reply.err>>)
         ELSE IF reply.finish_reason # "stop"
         THEN Left(<<"Unexpected finish reason: ", reply.finish_reason>>)
         ELSE IF reply.refusal # ""
         THEN Left(<<"Refused: ", reply.refusal>>)
         ELSE Right(reply)
    ELSE IF reply.raised
         THEN Left(<<"Error getting completion from Anthropic: ", reply.err>>)
         ELSE Right(reply)

\* parse_completion(ctx, completion) of the driver
ParseCompletion(driver_name, completion) ==
    IF driver_name = "openai"
    THEN IF completion.content.kind = "none"
         THEN Left(<<"No content in completion message">>)
         ELSE IF ~JsonLoads(completion.content).ok
         THEN Left(<<"Error parsing output: ", "Expecting value">>)
         ELSE Right(JsonLoads(completion.content).obj)
    ELSE IF JsonLoads(completion.content).ok
         THEN Right(JsonLoads(completion.content).obj)
         ELSE IF FencedJson(completion.content).ok
         THEN Right(FencedJson(completion.content).obj)
         ELSE Left(<<"No valid JSON found in Anthropic response">>)

\* the part of step after the await: completion_result.flat_map(
\* parse_completion).flat_map(convert_to_action)
StepChain(driver_name, reply) ==
    LET flat_map(self, func(_)) ==
            IF self.tag = "Right" THEN func(self.value) ELSE self
        completion_result == GetCompletion(driver_name, reply)
        parse(completion) == ParseCompletion(driver_name, completion)
    IN  flat_map(flat_map(completion_result, parse), ConvertToAction)

\* an exception that leaves a call
Exception(error) == [tag |-> "raised", error |-> error, value |-> NoAction]

-----------------------------------------------------------------------------
(* Bounds and the values the inputs are drawn from                          *)

MaxExecutes == 3    \* calls of execute on the one instance of SpecAction
MaxBudget   == 3    \* the largest max_actions the configuration gives

Operands == {-2, 0, 3}
Requests == {"What is your name?"}
Answers  == {"John", ""}
Outputs  == {None, Num(3), Str("Final result")}

ActionInstances ==
    {Add(a, b) : a \in Operands, b \in Operands}
    \cup {Subtract(a, b) : a \in Operands, b \in Operands}
    \cup {Multiply(a, b) : a \in Operands, b \in Operands}
    \cup {Divide(a, b) : a \in Operands, b \in Operands}
    \cup {AskUser(q) : q \in Requests}
    \cup {Done(o) : o \in Outputs}

Capabilities == {NoIO} \cup {IO(x) : x \in Answers}

\* what a driver's step may return (the Lefts of src/ap/drivers/openai.py
\* are strings; two stand for them)
DriverErrors == {<<"boom">>, <<"Failed to parse JSON response">>}
DriverActions ==
    {Add(1, 2), Add(1, 1), Multiply(2, 0), Divide(3, 2), Divide(1, 0)}
    \cup {AskUser(q) : q \in Requests}
    \cup {Done(o) : o \in Outputs}
DriverResponses ==
    {Left(e) : e \in DriverErrors} \cup {Right(a) : a \in DriverActions}

\* the exceptions a step may end in: openai's get_prompts with a prompt file
\* that cannot be read
DriverExceptions == {GetPrompts(PromptTypes \ {"system"}).error}

DriverNames == {"openai", "anthropic", "ollama"}

\* the action lists a thread may hold when loop is called
Histories == {<<>>, <<[Add(1, 1) EXCEPT !.r = Num(2)]>>}

-----------------------------------------------------------------------------
(* SpecAction: execute called again and again on one instance               *)

IdleAction ==
    /\ act = NoAction
    /\ compute_calls = 0
    /\ returns = <<>>
    /\ io_prompts = <<>>

InitAction ==
    /\ act \in ActionInstances
    /\ compute_calls = 0
    /\ returns = <<>>
    /\ io_prompts = <<>>

\* action.execute(**kwargs), Action.execute with the _compute_result it calls
ExecuteCall(kwargs) ==
    /\ Len(returns) < MaxExecutes
    /\ LET e == Execute(act, kwargs)
       IN  /\ act' = e.action
           /\ compute_calls' = IF e.computed THEN compute_calls + 1
                               ELSE compute_calls
           /\ io_prompts' = IF e.prompted THEN Append(io_prompts, act.request)
                            ELSE io_prompts
           /\ returns' = Append(returns, [kwargs |-> kwargs, out |-> e.out])
    /\ UNCHANGED exceptAction

NextAction == \E kwargs \in Capabilities : ExecuteCall(kwargs)

-----------------------------------------------------------------------------
(* Spec: one call of loop(ctx, thread)                                      *)

IdleLoop ==
    /\ pc = "idle"
    /\ ctx_driver = "openai"
    /\ cfg_max_actions = 0
    /\ max_actions = 0
    /\ iteration = 0
    /\ thread = MkThread("", "", <<>>)
    /\ thread0 = <<>>
    /\ calls = 0
    /\ driver_log = <<>>
    /\ result = NoResult

InitLoop ==
    /\ pc = "start"
    /\ ctx_driver \in DriverNames
    /\ cfg_max_actions \in 0..MaxBudget
    /\ max_actions = 0
    /\ iteration = 0
    /\ thread0 \in Histories
    /\ thread = MkThread("a1b2c3", "What is 1 + 2?", thread0)
    /\ calls = 0
    /\ driver_log = <<>>
    /\ result = NoResult

\* max_actions = Config.get("max_actions", 10)
LoopStart ==
    /\ pc = "start"
    /\ max_actions' = cfg_max_actions
    /\ iteration' = 0
    /\ pc' = "top"
    /\ UNCHANGED <<ctx_driver, cfg_max_actions, thread, thread0, calls,
                   driver_log, result>>

\* an iteration begins: get_driver finds the step function and loop awaits it
LoopCallDriver ==
    /\ pc = "top"
    /\ HasIteration(iteration, max_actions)
    /\ ~GetDriverRaises(ctx_driver)
    /\ calls' = calls + 1
    /\ pc' = "await"
    /\ UNCHANGED <<ctx_driver, cfg_max_actions, max_actions, iteration, thread,
                   thread0, driver_log, result>>

\* an iteration begins: get_driver raises, and nothing in loop catches it
LoopUnknownDriver ==
    /\ pc = "top"
    /\ HasIteration(iteration, max_actions)
    /\ GetDriverRaises(ctx_driver)
    /\ result' = [tag |-> "raised", error |-> UnknownDriverMsg(ctx_driver),
                  value |-> NoAction]
    /\ pc' = "raised"
    /\ UNCHANGED <<ctx_driver, cfg_max_actions, max_actions, iteration, thread,
                   thread0, calls, driver_log>>

\* the for loop is over: the budget is spent
LoopExhausted ==
    /\ pc = "top"
    /\ ~HasIteration(iteration, max_actions)
    /\ result' = Left(ExceededMsg(max_actions))
    /\ pc' = "returned"
    /\ UNCHANGED <<ctx_driver, cfg_max_actions, max_actions, iteration, thread,
                   thread0, calls, driver_log>>

\* the step function returns a Left: loop returns it
StepLeft(resp) ==
    /\ pc = "await"
    /\ IsLeft(resp)
    /\ driver_log' = Append(driver_log, [resp |-> resp, answer |-> ""])
    /\ result' = DriverFailure(resp)
    /\ pc' = "returned"
    /\ UNCHANGED <<ctx_driver, cfg_max_actions, max_actions, iteration, thread,
                   thread0, calls>>

\* the step function raises (openai.step when a prompt template cannot be
\* loaded); the await of loop is outside its try, so the exception leaves loop
StepRaise(error) ==
    /\ pc = "await"
    /\ ctx_driver = "openai"
    /\ result' = Exception(error)
    /\ pc' = "raised"
    /\ UNCHANGED <<ctx_driver, cfg_max_actions, max_actions, iteration, thread,
                   thread0, calls, driver_log>>

\* the step function returns an action; the rest of the iteration runs
\* without suspending: execute, append, test for Done
StepRight(resp, answer) ==
    /\ pc = "await"
    /\ ~IsLeft(resp)
    /\ driver_log' = Append(driver_log, [resp |-> resp, answer |-> answer])
    /\ LET typed_action == resp.value
           e == Execute(typed_action, KwargsFor(typed_action, answer))
       IN  IF e.out.raised
           THEN /\ result' = Left(ExecErrorMsg(typed_action.cls, e.out.err))
                /\ pc' = "returned"
                /\ UNCHANGED <<thread, iteration>>
           ELSE /\ thread' = ThreadAdd(thread, e.action)
                /\ IF IsDone(e.action)
                   THEN /\ result' = Right(e.action)
                        /\ pc' = "returned"
                        /\ UNCHANGED iteration
                   ELSE /\ iteration' = iteration + 1
                        /\ pc' = "top"
                        /\ UNCHANGED result
    /\ UNCHANGED <<ctx_driver, cfg_max_actions, max_actions, thread0, calls>>

\* the answers ctx.cli.prompt may give when the action asks the user
AnswersFor(resp) == IF resp.value.cls = "AskUser" THEN Answers ELSE {""}

NextLoop ==
    \/ LoopStart /\ UNCHANGED exceptLoop
    \/ LoopCallDriver /\ UNCHANGED exceptLoop
    \/ LoopUnknownDriver /\ UNCHANGED exceptLoop
    \/ LoopExhausted /\ UNCHANGED exceptLoop
    \/ \E resp \in DriverResponses :
          StepLeft(resp) /\ UNCHANGED exceptLoop
    \/ \E error \in DriverExceptions :
          StepRaise(error) /\ UNCHANGED exceptLoop
    \/ \E resp \in DriverResponses : \E answer \in AnswersFor(resp) :
          StepRight(resp, answer) /\ UNCHANGED exceptLoop

-----------------------------------------------------------------------------
(* SpecStore: ThreadInMemoryStore (src/ap/inmemory.py) used by concurrent   *)
(* callers.  A Thread object is a number, its place in heap; threads, the   *)
(* dict of the class, maps an id to a Thread object, 0 standing for "no     *)
(* such key".  A call of add or clear is two steps (the lock is taken; the  *)
(* dict is changed and the lock released), a call of get is its two dict    *)
(* accesses.                                                                *)

MaxThreads == 2    \* Thread objects created
MaxCalls   == 3    \* calls of add, get and clear started

Stores  == {"s1", "s2"}      \* the ThreadInMemoryStore instances
Callers == {"c1", "c2"}      \* the threads of control that call them
NoOne   == "-"

\* the values str(uuid4())[:6] may take (two stand for the 16^6)
IdSpace == {"3f2a9c", "b81e04"}
Queries == {"What is 1 + 2?"}

\* f"Thread with ID {thread_id} not found in store."
NotFoundMsg(thread_id) == <<"Thread with ID ", thread_id, " not found in store.">>

\* what a caller's last call did: which call on which instance, how it ended
\* (kind), the Thread object or the message it returned, and how many
\* mutations had been completed when it began (n0) and when it ended (n1)
CallRecord(call, store, id, kind, obj, error, n0, n1) ==
    [call |-> call, store |-> store, id |-> id, kind |-> kind, obj |-> obj,
     error |-> error, n0 |-> n0, n1 |-> n1]

NoCall == CallRecord("none", "", "", "none", 0, <<>>, 0, 0)

IdleStore ==
    /\ threads = [i \in IdSpace |-> 0]
    /\ lock = [s \in Stores |-> NoOne]
    /\ heap = <<>>
    /\ cpc = [c \in Callers |-> "idle"]
    /\ cself = [c \in Callers |-> ""]
    /\ carg = [c \in Callers |-> [id |-> "", obj |-> 0, n0 |-> 0]]
    /\ cret = [c \in Callers |-> NoCall]
    /\ ops = <<>>
    /\ nops = 0

\* threads: dict[str, Thread] = {} in the class body; self.lock = Lock() in
\* __init__: no thread is stored, no lock is held
InitStore == IdleStore

\* generate_thread_id: str(uuid4())[:6], a random value of the id space
GenerateThreadId == IdSpace

\* thread_id not in self.threads
Missing(thread_id) == threads[thread_id] = 0

\* the lock object a call on instance self takes: self.lock
LockOf(self) == self

\* Thread(query=...): a new object whose id comes from generate_thread_id
CreateThread(query) ==
    /\ Len(heap) < MaxThreads
    /\ \E id \in GenerateThreadId :
          heap' = Append(heap, MkThread(id, query, <<>>))
    /\ UNCHANGED <<threads, lock, cpc, cself, carg, cret, ops, nops>>

\* self.threads as the instance self has it: __init__ sets self.lock only,
\* so the name is found on the class, the same dict for every instance
ThreadsOf(self) == threads

\* add, "with self.lock:" entered
AddAcquire(c, self, obj) ==
    /\ cpc[c] = "idle"
    /\ nops < MaxCalls
    /\ lock[LockOf(self)] = NoOne
    /\ lock' = [lock EXCEPT ![LockOf(self)] = c]
    /\ cpc' = [cpc EXCEPT ![c] = "add_locked"]
    /\ cself' = [cself EXCEPT ![c] = self]
    /\ carg' = [carg EXCEPT ![c] = [id |-> heap[obj].id, obj |-> obj, n0 |-> 0]]
    /\ nops' = nops + 1
    /\ UNCHANGED <<threads, heap, cret, ops>>

\* add, self.threads[thread.id] = thread, the lock released, thread returned
AddCommit(c) ==
    /\ cpc[c] = "add_locked"
    /\ threads' = [threads EXCEPT ![carg[c].id] = carg[c].obj]
    /\ lock' = [lock EXCEPT ![LockOf(cself[c])] = NoOne]
    /\ ops' = Append(ops, [op |-> "add", store |-> cself[c], id |-> carg[c].id,
                           obj |-> carg[c].obj])
    /\ cret' = [cret EXCEPT ![c] =
                  CallRecord("add", cself[c], carg[c].id, "returned",
                             carg[c].obj, <<>>, Len(ops'), Len(ops'))]
    /\ cpc' = [cpc EXCEPT ![c] = "idle"]
    /\ UNCHANGED <<heap, cself, carg, nops>>

\* clear, "with self.lock:" entered
ClearAcquire(c, self) ==
    /\ cpc[c] = "idle"
    /\ nops < MaxCalls
    /\ lock[LockOf(self)] = NoOne
    /\ lock' = [lock EXCEPT ![LockOf(self)] = c]
    /\ cpc' = [cpc EXCEPT ![c] = "clear_locked"]
    /\ cself' = [cself EXCEPT ![c] = self]
    /\ nops' = nops + 1
    /\ UNCHANGED <<threads, heap, carg, cret, ops>>

\* clear, self.threads.clear(), the lock released, self returned
ClearCommit(c) ==
    /\ cpc[c] = "clear_locked"
    /\ threads' = [i \in IdSpace |-> 0]
    /\ lock' = [lock EXCEPT ![LockOf(cself[c])] = NoOne]
    /\ ops' = Append(ops, [op |-> "clear", store |-> cself[c], id |-> "",
                           obj |-> 0])
    /\ cret' = [cret EXCEPT ![c] =
                  CallRecord("clear", cself[c], "", "returned", 0, <<>>,
                             Len(ops'), Len(ops'))]
    /\ cpc' = [cpc EXCEPT ![c] = "idle"]
    /\ UNCHANGED <<heap, cself, carg, nops>>

\* get, "if thread_id not in self.threads: return Left(...)"
GetMiss(c, self, thread_id) ==
    /\ cpc[c] = "idle"
    /\ nops < MaxCalls
    /\ Missing(thread_id)
    /\ cret' = [cret EXCEPT ![c] =
                  CallRecord("get", self, thread_id, "Left", 0,
                             NotFoundMsg(thread_id), Len(ops), Len(ops))]
    /\ nops' = nops + 1
    /\ UNCHANGED <<threads, lock, heap, cpc, cself, carg, ops>>

\* get, the membership test finds the key: the lookup comes next
GetFound(c, self, thread_id) ==
    /\ cpc[c] = "idle"
    /\ nops < MaxCalls
    /\ ~Missing(thread_id)
    /\ cpc' = [cpc EXCEPT ![c] = "get_found"]
    /\ cself' = [cself EXCEPT ![c] = self]
    /\ carg' = [carg EXCEPT ![c] = [id |-> thread_id, obj |-> 0, n0 |-> Len(ops)]]
    /\ nops' = nops + 1
    /\ UNCHANGED <<threads, lock, heap, cret, ops>>

\* get, "return Right(self.threads[thread_id])": a key that is gone by now
\* makes the subscript raise KeyError
GetLookup(c) ==
    /\ cpc[c] = "get_found"
    /\ cret' = [cret EXCEPT ![c] =
                  CallRecord("get", cself[c], carg[c].id,
                             IF Missing(carg[c].id) THEN "KeyError" ELSE "Right",
                             threads[carg[c].id], <<>>, carg[c].n0, Len(ops))]
    /\ cpc' = [cpc EXCEPT ![c] = "idle"]
    /\ UNCHANGED <<threads, lock, heap, cself, carg, ops, nops>>

NextStore ==
    \/ \E q \in Queries : CreateThread(q) /\ UNCHANGED exceptStore
    \/ \E c \in Callers, self \in Stores : \E obj \in 1..Len(heap) :
          AddAcquire(c, self, obj) /\ UNCHANGED exceptStore
    \/ \E c \in Callers : AddCommit(c) /\ UNCHANGED exceptStore
    \/ \E c \in Callers, self \in Stores :
          ClearAcquire(c, self) /\ UNCHANGED exceptStore
    \/ \E c \in Callers : ClearCommit(c) /\ UNCHANGED exceptStore
    \/ \E c \in Callers, self \in Stores, id \in IdSpace :
          GetMiss(c, self, id) /\ UNCHANGED exceptStore
    \/ \E c \in Callers, self \in Stores, id \in IdSpace :
          GetFound(c, self, id) /\ UNCHANGED exceptStore
    \/ \E c \in Callers : GetLookup(c) /\ UNCHANGED exceptStore

-----------------------------------------------------------------------------
(* SpecEither: map, flat_map and fold called one after another, each on    *)
(* what the call before returned; fold ends the chain.                      *)

MaxEitherOps == 3   \* method calls in one chain

MapFuns     == {"double", "incr", "negate"}
FlatMapFuns == {"right_double", "to_error", "positive"}
OnLeft      == {"one", "length"}
OnRight     == {"zero", "same"}

EitherInputs ==
    {Right(Num(x)) : x \in {-1, 0, 42}}
    \cup {Left(<<"error">>), Left(<<"Thread ", "3f2a9c", " not found">>)}

\* a method call of the chain: the method, the functions it was handed and
\* the invocations it made
MethodCall(m, f, g, invoked) == [m |-> m, f |-> f, g |-> g, calls |-> invoked]

IdleEither ==
    /\ e_input = NoResult
    /\ e_self = NoResult
    /\ e_ops = <<>>
    /\ e_out = None

InitEither ==
    /\ e_input \in EitherInputs
    /\ e_self = e_input
    /\ e_ops = <<>>
    /\ e_out = None

Folded == e_ops # <<>> /\ e_ops[Len(e_ops)].m = "fold"

CallMap(func) ==
    /\ Len(e_ops) < MaxEitherOps
    /\ ~Folded
    /\ LET m == EitherMap(e_self, func)
       IN  /\ e_self' = m.out
           /\ e_ops' = Append(e_ops, MethodCall("map", func, "", m.calls))
    /\ UNCHANGED <<e_input, e_out>>

CallFlatMap(func) ==
    /\ Len(e_ops) < MaxEitherOps
    /\ ~Folded
    /\ LET m == EitherFlatMap(e_self, func)
       IN  /\ e_self' = m.out
           /\ e_ops' = Append(e_ops, MethodCall("flat_map", func, "", m.calls))
    /\ UNCHANGED <<e_input, e_out>>

CallFold(on_left, on_right) ==
    /\ Len(e_ops) < MaxEitherOps
    /\ ~Folded
    /\ LET m == EitherFold(e_self, on_left, on_right)
       IN  /\ e_out' = m.out
           /\ e_ops' = Append(e_ops, MethodCall("fold", on_left, on_right, m.calls))
    /\ UNCHANGED <<e_input, e_self>>

NextEither ==
    \/ \E func \in MapFuns : CallMap(func) /\ UNCHANGED exceptEither
    \/ \E func \in FlatMapFuns : CallFlatMap(func) /\ UNCHANGED exceptEither
    \/ \E on_left \in OnLeft : \E on_right \in OnRight :
          CallFold(on_left, on_right) /\ UNCHANGED exceptEither

-----------------------------------------------------------------------------

(* SpecDriver: one call of step(ctx, thread) of a registered driver.  The   *)
(* call runs up to its await (or ends in the exception that loading the     *)
(* prompts raised), and after the API call has answered it runs to its      *)
(* return.                                                                  *)

\* the names a reply may put under "action"
ActionNames ==
    {"Add", "Subtract", "Multiply", "Divide", "AskUser", "Done",
     "add", "DONE", "Sum", "Action"}

\* the values a reply may put under "arguments"
ArgumentValues ==
    {Arguments(Num(1), Num(2), Absent, Absent, Absent),
     Arguments(Num(1), Num(0), Absent, Absent, Absent),
     Arguments(Num(1), Absent, Absent, Absent, Absent),
     Arguments(Str("x"), Num(2), Absent, Absent, Absent),
     Arguments(None, Num(2), Absent, Absent, Absent),
     Arguments(Num(1), Num(2), Absent, Absent, Num(5)),
     Arguments(Absent, Absent, Str("What is your name?"), Absent, Absent),
     Arguments(Absent, Absent, Num(5), Absent, Absent),
     Arguments(Absent, Absent, Absent, Num(3), Absent),
     Arguments(Absent, Absent, Absent, Str("Final result"), Absent),
     EmptyDict,
     NotADict}

JsonObjects ==
    {JsonObj(TRUE, name, TRUE, arguments) :
        name \in ActionNames, arguments \in ArgumentValues}
    \cup {JsonObj(FALSE, "", TRUE, arguments) : arguments \in ArgumentValues}
    \cup {JsonObj(TRUE, name, FALSE, EmptyDict) : name \in ActionNames}

Contents ==
    {Content("none", NoJson), Content("garbage", NoJson)}
    \cup {Content(kind, json_obj) :
             kind \in {"json", "fenced"}, json_obj \in JsonObjects}

ApiReplies ==
    {ApiReply(TRUE, "Connection error.", "", "", Content("none", NoJson)),
     ApiReply(FALSE, "", "length", "", Content("garbage", NoJson)),
     ApiReply(FALSE, "", "stop", "I can't help with that",
              Content("none", NoJson))}
    \cup {ApiReply(FALSE, "", "stop", "", content) : content \in Contents}

IdleDriver ==
    /\ step_pc = "idle"
    /\ step_driver = "openai"
    /\ step_files = {}
    /\ step_reply = NoReply
    /\ step_out = NoResult

InitDriver ==
    /\ step_pc = "called"
    /\ step_driver \in DRIVERS
    /\ step_files \in SUBSET PromptTypes
    /\ step_reply = NoReply
    /\ step_out = NoResult

\* openai.step: get_prompts raises, and nothing in step catches it
StepPromptsRaise ==
    /\ step_pc = "called"
    /\ step_driver = "openai"
    /\ GetPrompts(step_files).raised
    /\ step_out' = Exception(GetPrompts(step_files).error)
    /\ step_pc' = "raised"
    /\ UNCHANGED <<step_driver, step_files, step_reply>>

\* step gets its prompts and messages and awaits get_completion
StepAwait ==
    /\ step_pc = "called"
    /\ step_driver = "openai" => ~GetPrompts(step_files).raised
    /\ step_pc' = "await"
    /\ UNCHANGED <<step_driver, step_files, step_reply, step_out>>

\* the API call is over; get_completion, parse_completion and
\* convert_to_action run and step returns
StepReturn(reply) ==
    /\ step_pc = "await"
    /\ step_reply' = reply
    /\ step_out' = StepChain(step_driver, reply)
    /\ step_pc' = "returned"
    /\ UNCHANGED <<step_driver, step_files>>

NextDriver ==
    \/ StepPromptsRaise /\ UNCHANGED exceptDriver
    \/ StepAwait /\ UNCHANGED exceptDriver
    \/ \E reply \in ApiReplies : StepReturn(reply) /\ UNCHANGED exceptDriver

-----------------------------------------------------------------------------

(* Config (src/ap/config.py).  _config maps a section name to the keys of   *)
(* the section; _active_driver is one name for the whole process.           *)

DefaultMaxActions == 10   \* Config.get("max_actions", 10)

\* a Config.get that looks in the section "default" first
ConfigGetDefaultFirst(cfg, active, key, default) ==
    IF "default" \in DOMAIN cfg /\ key \in DOMAIN cfg["default"]
    THEN cfg["default"][key]
    ELSE IF active \in DOMAIN cfg /\ key \in DOMAIN cfg[active]
    THEN cfg[active][key]
    ELSE default

\* Config.get(key, default): the active driver's section, then the section
\* "default", then the caller's default
ConfigGet(cfg, active, key, default) ==
    IF active \in DOMAIN cfg /\ key \in DOMAIN cfg[active]
    THEN cfg[active][key]
    ELSE IF "default" \in DOMAIN cfg /\ key \in DOMAIN cfg["default"]
    THEN cfg["default"][key]
    ELSE default

\* Config.set_driver(driver_name) raises ValueError
SetDriverRaises(cfg, driver_name) ==
    driver_name \notin DOMAIN cfg /\ driver_name # "default"

\* _config when no file could be loaded
NoConfig == [section \in {} |-> None]

\* config.yaml files: one that sets max_actions for all drivers, one that
\* sets it driver by driver
ConfigFiles ==
    { [default   |-> [max_actions |-> Num(2)],
       openai    |-> [model |-> Str("gpt-4.1-nano")],
       anthropic |-> [model |-> Str("claude-3-haiku")],
       ollama    |-> [model |-> Str("llama3")]],
      [default   |-> [temperature |-> Num(0)],
       openai    |-> [model |-> Str("gpt-4.1-nano"), max_actions |-> Num(1)],
       anthropic |-> [model |-> Str("claude-3-haiku"), max_actions |-> Num(3)]] }

IdleConfig ==
    /\ config = NoConfig
    /\ active_driver = "openai"

InitConfig ==
    /\ config \in ConfigFiles
    /\ active_driver = "openai"

-----------------------------------------------------------------------------
(* SpecIsolation: a process that serves requests concurrently, each the way *)
(* cli.process serves one: Config.set_driver(driver), a Context with        *)
(* driver=driver, then the loop.  A request runs without interruption up to *)
(* the await of its driver's API call; there another request may run.       *)

Tasks == {"t1", "t2"}

\* what one iteration uses: the step function get_driver(ctx.driver) gives
\* and the model name its get_completion reads with Config.get("model")
Used(step_of, model) == [step |-> step_of, model |-> model]

IdleRequests ==
    /\ req_pc = [t \in Tasks |-> "idle"]
    /\ req_driver = [t \in Tasks |-> "openai"]
    /\ req_max_actions = [t \in Tasks |-> 0]
    /\ req_iteration = [t \in Tasks |-> 0]
    /\ req_used = [t \in Tasks |-> <<>>]

InitRequests ==
    /\ req_pc = [t \in Tasks |-> "new"]
    /\ req_driver \in [Tasks -> DRIVERS]
    /\ req_max_actions = [t \in Tasks |-> 0]
    /\ req_iteration = [t \in Tasks |-> 0]
    /\ req_used = [t \in Tasks |-> <<>>]

\* the request is taken up: set_driver, the Context, go and loop as far as
\* the first await of the API call (or to the end when the budget is 0)
RequestStart(t) ==
    /\ req_pc[t] = "new"
    /\ ~SetDriverRaises(config, req_driver[t])
    /\ active_driver' = req_driver[t]
    /\ LET n == ConfigGet(config, active_driver', "max_actions",
                          Num(DefaultMaxActions)).n
       IN  /\ req_max_actions' = [req_max_actions EXCEPT ![t] = n]
           /\ IF HasIteration(0, n)
              THEN /\ req_used' = [req_used EXCEPT ![t] =
                          <<Used(req_driver[t],
                                 ConfigGet(config, active_driver', "model", None))>>]
                   /\ req_pc' = [req_pc EXCEPT ![t] = "await"]
              ELSE /\ req_pc' = [req_pc EXCEPT ![t] = "done"]
                   /\ UNCHANGED req_used
    /\ UNCHANGED <<config, req_driver, req_iteration>>

\* the API call of the request answers and step returns a Left or a Done:
\* the loop of the request returns
RequestEnd(t) ==
    /\ req_pc[t] = "await"
    /\ req_pc' = [req_pc EXCEPT ![t] = "done"]
    /\ UNCHANGED <<configVars, req_driver, req_max_actions, req_iteration,
                   req_used>>

\* the API call of the request answers and step returns an action that is
\* not a Done: the loop goes on to its next iteration, as far as the await
\* of the next API call, or finds the budget spent
RequestContinue(t) ==
    /\ req_pc[t] = "await"
    /\ req_iteration' = [req_iteration EXCEPT ![t] = @ + 1]
    /\ IF HasIteration(req_iteration'[t], req_max_actions[t])
       THEN /\ req_used' = [req_used EXCEPT ![t] =
                   Append(@, Used(req_driver[t],
                                  ConfigGet(config, active_driver, "model", None)))]
            /\ UNCHANGED req_pc
       ELSE /\ req_pc' = [req_pc EXCEPT ![t] = "done"]
            /\ UNCHANGED req_used
    /\ UNCHANGED <<configVars, req_driver, req_max_actions>>

NextIsolation ==
    \/ \E t \in Tasks : RequestStart(t) /\ UNCHANGED exceptIsolation
    \/ \E t \in Tasks : RequestEnd(t) /\ UNCHANGED exceptIsolation
    \/ \E t \in Tasks : RequestContinue(t) /\ UNCHANGED exceptIsolation

-----------------------------------------------------------------------------

(* SpecCli: one call of process(task, driver) of src/ap/cli.py: the driver  *)
(* is selected, a thread is created and stored, go runs the loop on it,     *)
(* and the result is folded to the value process returns.                   *)

CliDrivers == {"openai", "anthropic", "ollama", "default", "gemini"}
CliTasks   == {"What is 1 + 2?"}

IdleCli ==
    /\ cli_pc = "idle"
    /\ cli_driver = "openai"
    /\ cli_stored = {}
    /\ cli_ret = None

InitCli ==
    /\ cli_pc = "process"
    /\ cli_driver \in CliDrivers
    /\ cli_stored = {}
    /\ cli_ret = None
    /\ config \in ConfigFiles \cup {NoConfig}
    /\ active_driver = "openai"

\* Config.set_driver(driver) raises ValueError: process reports it and
\* returns 1
ProcessRejected ==
    /\ cli_pc = "process"
    /\ SetDriverRaises(config, cli_driver)
    /\ cli_ret' = Num(1)
    /\ cli_pc' = "exit"
    /\ UNCHANGED <<cli_driver, cli_stored, configVars, loopVars>>

\* the driver is selected; the Context and the Thread are made, the thread
\* is added to thread_store, and go finds it there and calls loop
ProcessRun(task, id) ==
    /\ cli_pc = "process"
    /\ ~SetDriverRaises(config, cli_driver)
    /\ active_driver' = cli_driver
    /\ cli_stored' = cli_stored \cup {id}
    /\ cli_pc' = "go"
    /\ pc' = "start"
    /\ ctx_driver' = cli_driver
    /\ cfg_max_actions' = ConfigGet(config, active_driver', "max_actions",
                                    Num(DefaultMaxActions)).n
    /\ thread' = MkThread(id, task, <<>>)
    /\ thread0' = <<>>
    /\ UNCHANGED <<cli_driver, cli_ret, config, max_actions, iteration, calls,
                   driver_log, result>>

\* go returned: _handle_result folds the result, _handle_error giving 1 and
\* _handle_success giving 0
ProcessReturn ==
    /\ cli_pc = "go"
    /\ pc = "returned"
    /\ cli_ret' = EitherFold(result, "one", "zero").out
    /\ cli_pc' = "exit"
    /\ UNCHANGED <<cli_driver, cli_stored, configVars, loopVars>>

\* an exception left loop: nothing in go, run or process catches it
ProcessRaise ==
    /\ cli_pc = "go"
    /\ pc = "raised"
    /\ cli_pc' = "raised"
    /\ UNCHANGED <<cli_driver, cli_stored, cli_ret, configVars, loopVars>>

NextCli ==
    \/ ProcessRejected /\ UNCHANGED exceptCli
    \/ \E task \in CliTasks : \E id \in GenerateThreadId :
          ProcessRun(task, id) /\ UNCHANGED exceptCli
    \/ NextLoop
    \/ ProcessReturn /\ UNCHANGED exceptCli
    \/ ProcessRaise /\ UNCHANGED exceptCli

-----------------------------------------------------------------------------

(* SpecConfig: Config.set_driver and Config.get called one after another on *)
(* a loaded configuration.                                                  *)

MaxConfigCalls == 3   \* calls of set_driver and get in one run

\* the configurations looked into: the files above, one whose default
\* section has keys the driver sections have too, and no file at all
LookupConfigs ==
    ConfigFiles
    \cup { [default   |-> [max_actions |-> Num(10), model |-> Str("default-model")],
            openai    |-> [model |-> Str("gpt-4.1-nano")],
            anthropic |-> [model |-> Str("claude-3-haiku"),
                           max_actions |-> Num(5)]],
           NoConfig }

LookupKeys     == {"model", "max_actions", "missing"}
LookupDefaults == {None, Str("fallback")}
LookupDrivers  == {"openai", "anthropic", "default", "gemini"}

\* one call: set_driver(arg) or get(arg, default), the active driver before
\* and after it, what it returned and whether it raised
ConfigCall(op, arg, default, active0, active1, out, raised) ==
    [op |-> op, arg |-> arg, default |-> default, active0 |-> active0,
     active1 |-> active1, out |-> out, raised |-> raised]

IdleConfigCalls == cfg_calls = <<>>

InitLookup ==
    /\ config \in LookupConfigs
    /\ active_driver = "openai"
    /\ cfg_calls = <<>>

\* Config.set_driver(driver_name)
SetDriver(driver_name) ==
    /\ Len(cfg_calls) < MaxConfigCalls
    /\ active_driver' = IF SetDriverRaises(config, driver_name)
                        THEN active_driver ELSE driver_name
    /\ cfg_calls' = Append(cfg_calls,
          ConfigCall("set_driver", driver_name, None, active_driver,
                     active_driver', None, SetDriverRaises(config, driver_name)))
    /\ UNCHANGED config

\* Config.get(key, default)
Get(key, default) ==
    /\ Len(cfg_calls) < MaxConfigCalls
    /\ cfg_calls' = Append(cfg_calls,
          ConfigCall("get", key, default, active_driver, active_driver,
                     ConfigGet(config, active_driver, key, default), FALSE))
    /\ UNCHANGED <<config, active_driver>>

NextConfig ==
    \/ \E driver_name \in LookupDrivers :
          SetDriver(driver_name) /\ UNCHANGED exceptConfig
    \/ \E key \in LookupKeys : \E default \in LookupDefaults :
          Get(key, default) /\ UNCHANGED exceptConfig

-----------------------------------------------------------------------------
(* SpecRun: run(thread) of the BAML variant (src/agent_primitives/agent.py, *)
(* src/agent_primitives/model.py).  An event is its type, the step the      *)
(* model returned (for system_response and tool_call) and the value of a    *)
(* tool's answer (for tool_response and error).  The list of events and the *)
(* number of model calls grow for as long as run goes on: run_events keeps  *)
(* the last MaxEvents events and run_calls counts up to MaxModelCalls.      *)

MaxEvents     == 4
MaxModelCalls == 3

Intents == {"request_more_information", "done_for_now",
            "add", "subtract", "multiply", "divide"}

NextStep(intent, a, b) == [intent |-> intent, a |-> a, b |-> b]
NoStep == NextStep("", 0, 0)

Event(type, step, data) == [type |-> type, step |-> step, data |-> data]

\* ToolAction is ACTIONS[intent](x, y) of the source; x / y raises ZeroDivisionError for y = 0
ToolAction(intent, x, y) ==
    CASE intent = "add"      -> Returned(Num(x + y))
      [] intent = "subtract" -> Returned(Num(x - y))
      [] intent = "multiply" -> Returned(Num(x * y))
      [] intent = "divide"   -> IF y = 0 THEN Raised("division by zero")
                                ELSE Returned(Frac(x, y))

\* the events one tool call appends: the call, then its answer or its error
ToolEvents(next_step) ==
    LET out == ToolAction(next_step.intent, next_step.a, next_step.b)
    IN  <<Event("tool_call", next_step, None),
          IF out.raised THEN Event("error", NoStep, Str(out.err))
          ELSE Event("tool_response", NoStep, out.value)>>

\* the last MaxEvents events of a list
Recent(events) ==
    IF Len(events) <= MaxEvents THEN events
    ELSE SubSeq(events, Len(events) - MaxEvents + 1, Len(events))

RunOperands == {0, 2}
RunQuestions == {"What is 2 plus 2?"}

\* what DetermineNextStep may answer; "search" is an intent the enum lacks
NextSteps ==
    {NextStep(i, 0, 0) : i \in {"request_more_information", "done_for_now",
                                "search"}}
    \cup {NextStep(i, x, y) : i \in {"add", "subtract", "multiply", "divide"},
                              x \in RunOperands, y \in RunOperands}

IdleRun == run_pc = "idle" /\ run_events = <<>> /\ run_calls = 0

\* run is called with the thread the caller made of the question
InitRun ==
    /\ run_pc = "call"
    /\ run_events \in {<<Event("user_input", NoStep, Str(q))>> : q \in RunQuestions}
    /\ run_calls = 0

\* the top of while True: DetermineNextStep is called and awaited
RunCall ==
    /\ run_pc = "call"
    /\ run_pc' = "await"
    /\ run_calls' = IF run_calls < MaxModelCalls THEN run_calls + 1 ELSE run_calls
    /\ UNCHANGED run_events

\* the call raised (the request failed, the answer did not parse)
RunCallRaises ==
    /\ run_pc = "await"
    /\ run_pc' = "raised"
    /\ UNCHANGED <<run_events, run_calls>>

\* the call answered with an intent that Intents does not have
RunUnknownIntent(next_step) ==
    /\ run_pc = "await"
    /\ next_step.intent \notin Intents
    /\ run_pc' = "raised"
    /\ UNCHANGED <<run_events, run_calls>>

\* a terminal intent: the answer is appended and run returns the thread
RunTerminal(next_step) ==
    /\ run_pc = "await"
    /\ next_step.intent \in {"done_for_now", "request_more_information"}
    /\ run_events' =
          Recent(Append(run_events, Event("system_response", next_step, None)))
    /\ run_pc' = "returned"
    /\ UNCHANGED run_calls

\* an arithmetic intent: the call and its answer are appended and the loop
\* goes round again
RunTool(next_step) ==
    /\ run_pc = "await"
    /\ next_step.intent \in {"add", "subtract", "multiply", "divide"}
    /\ run_events' = Recent(run_events \o ToolEvents(next_step))
    /\ run_pc' = "call"
    /\ UNCHANGED run_calls

NextRun ==
    \/ RunCall /\ UNCHANGED exceptRun
    \/ RunCallRaises /\ UNCHANGED exceptRun
    \/ \E next_step \in NextSteps : RunUnknownIntent(next_step) /\ UNCHANGED exceptRun
    \/ \E next_step \in NextSteps : RunTerminal(next_step) /\ UNCHANGED exceptRun
    \/ \E next_step \in NextSteps : RunTool(next_step) /\ UNCHANGED exceptRun

-----------------------------------------------------------------------------
(* SpecGo: a process that serves requests concurrently on one store, each   *)
(* by a call of go(ctx, thread_id) (src/ap/agent.py).  A request either     *)
(* makes a thread of its task and adds it to the store first, the way       *)
(* cli.process and eval.evaluate_test_case do, or calls go with an id it    *)
(* holds.  go runs without interruption from its call to the first await of *)
(* the driver and from one await to the next.  ctx.driver is a registered   *)
(* driver.                                                                  *)

MaxGoThreads == 2    \* Thread objects created
MaxGoBudget  == 2    \* max_actions of the configuration

GoTasks == {"g1", "g2"}

\* an id that no thread of the process has, and the keys the store is asked for
StaleIds == {"000000"}
GoIds == IdSpace \cup StaleIds

\* the ids of the threads made so far
HeldIds == {go_heap[o].id : o \in DOMAIN go_heap}

\* what the step function may return to a loop of SpecGo
GoResponses ==
    {Left(<<"boom">>), Right(Add(1, 2)), Right(Divide(1, 0)), Right(Done(Num(3)))}

\* one call of go: where it is (pc), its thread_id, the Thread object the
\* store gave it (0: none yet), the actions of that object at that moment,
\* the locals of loop, what the step function returned to it call by call,
\* and what go returned
GoTask(p, thread_id, obj, before, n, i, c, log, ret) ==
    [pc |-> p, id |-> thread_id, obj |-> obj, before |-> before,
     max_actions |-> n, iteration |-> i, calls |-> c, log |-> log, ret |-> ret]

NoGo == GoTask("idle", "", 0, <<>>, 0, 0, 0, <<>>, NoResult)

IdleGo ==
    /\ go_store = [i \in GoIds |-> 0]
    /\ go_heap = <<>>
    /\ go = [g \in GoTasks |-> NoGo]

\* thread_store = ThreadInMemoryStore(): no thread is stored
InitGo == IdleGo

\* a go that puts the store's message into a message of its own
GoLeftWrapped(error) == Left(<<"Failed to retrieve thread: ">> \o error)

\* case Left(error): return Left(error)
GoLeft(error) == Left(error)

\* a loop that works on the first Thread object of the process
ThreadOfFirst(task) == 1

\* the Thread object that loop's parameter thread names: the one go got
\* from the store
ThreadOf(task) == task.obj

\* thread = Thread(query=task); thread_store.add(thread); go(ctx, thread.id)
\* is called
GoSubmit(g, query, id) ==
    /\ go[g].pc = "idle"
    /\ Len(go_heap) < MaxGoThreads
    /\ go_heap' = Append(go_heap, MkThread(id, query, <<>>))
    /\ go_store' = [go_store EXCEPT ![id] = Len(go_heap) + 1]
    /\ go' = [go EXCEPT ![g] = [@ EXCEPT !.pc = "go", !.id = id]]

\* go(ctx, thread_id) is called with the id of a thread made before, or with
\* an id that no thread has; the host runs one request on a thread id at a
\* time
GoResume(g, thread_id) ==
    /\ go[g].pc = "idle"
    /\ thread_id \in HeldIds \cup StaleIds
    /\ \A h \in GoTasks :
          go[h].pc \in {"go", "top", "await"} => go[h].id # thread_id
    /\ go' = [go EXCEPT ![g] = [@ EXCEPT !.pc = "go", !.id = thread_id]]
    /\ UNCHANGED <<go_store, go_heap>>

\* ctx.state.get(thread_id) is a Left: go returns Left(error)
GoNotFound(g) ==
    /\ go[g].pc = "go"
    /\ go_store[go[g].id] = 0
    /\ go' = [go EXCEPT ![g] =
                [@ EXCEPT !.pc = "returned",
                          !.ret = GoLeft(NotFoundMsg(go[g].id))]]
    /\ UNCHANGED <<go_store, go_heap>>

\* ctx.state.get(thread_id) is Right(thread): _process_thread calls
\* loop(ctx, thread), which reads max_actions
GoFound(g) ==
    /\ go[g].pc = "go"
    /\ go_store[go[g].id] # 0
    /\ go' = [go EXCEPT ![g] =
                [@ EXCEPT !.pc = "top",
                          !.obj = go_store[go[g].id],
                          !.before = go_heap[go_store[go[g].id]].actions,
                          !.max_actions = MaxGoBudget,
                          !.iteration = 0]]
    /\ UNCHANGED <<go_store, go_heap>>

\* an iteration begins: the step function is called and awaited
GoCallDriver(g) ==
    /\ go[g].pc = "top"
    /\ HasIteration(go[g].iteration, go[g].max_actions)
    /\ go' = [go EXCEPT ![g] = [@ EXCEPT !.pc = "await", !.calls = @ + 1]]
    /\ UNCHANGED <<go_store, go_heap>>

\* the for loop is over: loop, _process_thread and go return the Left
GoExhausted(g) ==
    /\ go[g].pc = "top"
    /\ ~HasIteration(go[g].iteration, go[g].max_actions)
    /\ go' = [go EXCEPT ![g] =
                [@ EXCEPT !.pc = "returned",
                          !.ret = Left(ExceededMsg(go[g].max_actions))]]
    /\ UNCHANGED <<go_store, go_heap>>

\* the step function returns a Left: loop, _process_thread and go return it
GoStepLeft(g, resp) ==
    /\ go[g].pc = "await"
    /\ IsLeft(resp)
    /\ go' = [go EXCEPT ![g] =
                [@ EXCEPT !.pc = "returned",
                          !.log = Append(@, [resp |-> resp, answer |-> ""]),
                          !.ret = DriverFailure(resp)]]
    /\ UNCHANGED <<go_store, go_heap>>

\* the step function raises: the exception leaves loop, _process_thread
\* and go
GoStepRaise(g, error) ==
    /\ go[g].pc = "await"
    /\ go' = [go EXCEPT ![g] =
                [@ EXCEPT !.pc = "raised", !.ret = Exception(error)]]
    /\ UNCHANGED <<go_store, go_heap>>

\* the step function returns an action: execute, append to the thread, test
\* for Done
GoStepRight(g, resp) ==
    /\ go[g].pc = "await"
    /\ ~IsLeft(resp)
    /\ LET typed_action == resp.value
           e == Execute(typed_action, KwargsFor(typed_action, ""))
           logged == Append(go[g].log, [resp |-> resp, answer |-> ""])
           o == ThreadOf(go[g])
       IN  IF e.out.raised
           THEN /\ go' = [go EXCEPT ![g] =
                            [@ EXCEPT !.pc = "returned", !.log = logged,
                                      !.ret = Left(ExecErrorMsg(typed_action.cls,
                                                                e.out.err))]]
                /\ UNCHANGED go_heap
           ELSE /\ go_heap' = [go_heap EXCEPT ![o] = ThreadAdd(@, e.action)]
                /\ go' = [go EXCEPT ![g] =
                            IF IsDone(e.action)
                            THEN [@ EXCEPT !.pc = "returned", !.log = logged,
                                           !.ret = Right(e.action)]
                            ELSE [@ EXCEPT !.pc = "top", !.log = logged,
                                           !.iteration = @ + 1]]
    /\ UNCHANGED go_store

NextGo ==
    \/ \E g \in GoTasks, q \in Queries, id \in GenerateThreadId :
          GoSubmit(g, q, id) /\ UNCHANGED exceptGo
    \/ \E g \in GoTasks, id \in GoIds : GoResume(g, id) /\ UNCHANGED exceptGo
    \/ \E g \in GoTasks : GoNotFound(g) /\ UNCHANGED exceptGo
    \/ \E g \in GoTasks : GoFound(g) /\ UNCHANGED exceptGo
    \/ \E g \in GoTasks : GoCallDriver(g) /\ UNCHANGED exceptGo
    \/ \E g \in GoTasks : GoExhausted(g) /\ UNCHANGED exceptGo
    \/ \E g \in GoTasks, resp \in GoResponses :
          GoStepLeft(g, resp) /\ UNCHANGED exceptGo
    \/ \E g \in GoTasks, error \in DriverExceptions :
          GoStepRaise(g, error) /\ UNCHANGED exceptGo
    \/ \E g \in GoTasks, resp \in GoResponses :
          GoStepRight(g, resp) /\ UNCHANGED exceptGo

-----------------------------------------------------------------------------

(* The specifications                                                       *)

\* the groups of variables no specification below uses get their idle values
IdleRest == IdleGo /\ IdleRun /\ IdleConfigCalls /\ IdleConfig /\ IdleRequests /\ IdleCli

Init == InitLoop /\ IdleAction /\ IdleStore /\ IdleEither /\ IdleDriver /\ IdleRest
Next == NextLoop
Spec == Init /\ [][Next]_vars

\* the loop with its scheduling: a step that can be taken is taken in the end
\* (the driver's API call answers or times out, nothing else suspends)
SpecLive == Init /\ [][Next]_vars /\ WF_vars(Next)

ActionSpecInit ==
    InitAction /\ IdleLoop /\ IdleStore /\ IdleEither /\ IdleDriver /\ IdleRest
SpecAction == ActionSpecInit /\ [][NextAction]_vars

StoreSpecInit ==
    InitStore /\ IdleLoop /\ IdleAction /\ IdleEither /\ IdleDriver /\ IdleRest
SpecStore == StoreSpecInit /\ [][NextStore]_vars

EitherSpecInit ==
    InitEither /\ IdleLoop /\ IdleAction /\ IdleStore /\ IdleDriver /\ IdleRest
SpecEither == EitherSpecInit /\ [][NextEither]_vars

ConfigSpecInit ==
    /\ InitLookup /\ IdleRequests /\ IdleCli /\ IdleRun /\ IdleGo
    /\ IdleLoop /\ IdleAction /\ IdleStore /\ IdleEither /\ IdleDriver
SpecConfig == ConfigSpecInit /\ [][NextConfig]_vars

\* run called once, with its scheduling: the awaited model call completes
RunSpecInit ==
    /\ InitRun /\ IdleLoop /\ IdleAction /\ IdleStore /\ IdleEither /\ IdleDriver
    /\ IdleConfigCalls /\ IdleConfig /\ IdleRequests /\ IdleCli /\ IdleGo
SpecRun == RunSpecInit /\ [][NextRun]_vars /\ WF_vars(NextRun)

GoSpecInit ==
    /\ InitGo /\ IdleLoop /\ IdleAction /\ IdleStore /\ IdleEither /\ IdleDriver
    /\ IdleRun /\ IdleConfigCalls /\ IdleConfig /\ IdleRequests /\ IdleCli
SpecGo == GoSpecInit /\ [][NextGo]_vars

DriverSpecInit ==
    InitDriver /\ IdleLoop /\ IdleAction /\ IdleStore /\ IdleEither /\ IdleRest
SpecDriver == DriverSpecInit /\ [][NextDriver]_vars

IsolationSpecInit ==
    /\ IdleGo
    /\ IdleRun
    /\ IdleConfigCalls
    /\ InitConfig /\ InitRequests /\ IdleCli
    /\ IdleLoop /\ IdleAction /\ IdleStore /\ IdleEither /\ IdleDriver
SpecIsolation == IsolationSpecInit /\ [][NextIsolation]_vars

CliSpecInit ==
    /\ IdleGo
    /\ IdleRun
    /\ IdleConfigCalls
    /\ InitCli /\ IdleLoop /\ IdleRequests
    /\ IdleAction /\ IdleStore /\ IdleEither /\ IdleDriver
SpecCli == CliSpecInit /\ [][NextCli]_vars

-----------------------------------------------------------------------------
(* Properties of the loop, checked under Spec                               *)

Contains(msg, token) == \E i \in DOMAIN msg : msg[i] = token

\* the action as the driver returned it, before execute filled r in
Unexecuted(action) == [action EXCEPT !.r = None]

\* the action returned by the i-th driver call
LogAction(i) == driver_log[i].resp.value

\* what computing the i-th returned action does with the capability the loop
\* passes it
LogCompute(i) ==
    ComputeResult(LogAction(i), KwargsFor(LogAction(i), driver_log[i].answer))

\* the i-th driver call returned a non-Done action that executes without error
Continuing(i) ==
    /\ ~IsLeft(driver_log[i].resp)
    /\ LogAction(i).cls # "Done"
    /\ ~LogCompute(i).raised

\* the thread holds what it held when loop was called, then the actions of
\* the first n driver calls, executed, in the order they were returned
AppendedFirst(n) ==
    /\ Len(thread.actions) = Len(thread0) + n
    /\ \A i \in 1..Len(thread0) : thread.actions[i] = thread0[i]
    /\ \A i \in 1..n : Unexecuted(thread.actions[Len(thread0) + i]) = LogAction(i)

\* C1: when the first k-1 driver calls (1 <= k <= max_actions) return
\* non-Done actions that execute without error and the k-th returns a Done d,
\* loop has returned Right(d) with d.output unchanged, has made exactly k
\* driver calls, and the thread ends with exactly those k actions appended in
\* the order returned, d last; and loop does not return earlier: while every
\* call so far returned such a non-Done action and budget is left, it has
\* not returned.
C1_LoopSuccessPath ==
    LET k == Len(driver_log)
    IN  /\ ( /\ k >= 1
             /\ k <= max_actions
             /\ \A i \in 1..(k - 1) : Continuing(i)
             /\ ~IsLeft(driver_log[k].resp)
             /\ LogAction(k).cls = "Done" )
           => /\ pc = "returned"
              /\ result.tag = "Right"
              /\ Unexecuted(result.value) = LogAction(k)
              /\ result.value.output = LogAction(k).output
              /\ calls = k
              /\ AppendedFirst(k)
              /\ thread.actions[Len(thread.actions)] = result.value
        /\ ( /\ pc = "returned"
             /\ \A i \in 1..k : Continuing(i) )
           => k >= max_actions

\* C1 witness: the driver returned Add(1,2), then Done(output=3); loop has
\* returned Right and the thread has two more actions.
C1_Witness ==
    /\ pc = "returned"
    /\ Len(driver_log) = 2
    /\ LogAction(1) = Add(1, 2)
    /\ LogAction(2) = Done(Num(3))
    /\ result.tag = "Right"
    /\ result.value.output = Num(3)
    /\ Len(thread.actions) = Len(thread0) + 2

\* C2: with max_actions = N >= 1 and a driver all of whose calls return
\* non-Done actions that execute without error, loop returns a Left whose
\* message contains the number N, after exactly N driver calls, and the
\* thread has exactly N actions appended.
C2_LoopBudget ==
    ( /\ pc = "returned"
      /\ max_actions >= 1
      /\ \A i \in 1..Len(driver_log) : Continuing(i) )
    => /\ result.tag = "Left"
       /\ Contains(result.error, ToString(max_actions))
       /\ calls = max_actions
       /\ Len(driver_log) = max_actions
       /\ AppendedFirst(max_actions)

\* C2 witness: a budget of 3, the driver returned Add(1,1) three times, loop
\* has returned Left and the thread has three more actions.
C2_Witness ==
    /\ pc = "returned"
    /\ max_actions = 3
    /\ Len(driver_log) = 3
    /\ \A i \in 1..3 : LogAction(i) = Add(1, 1)
    /\ result.tag = "Left"
    /\ Contains(result.error, "3")
    /\ Len(thread.actions) = Len(thread0) + 3

\* C3: when the i-th driver call returns Left(e), loop has returned that
\* Left(e), message unchanged, has made no driver call after the i-th, and
\* the thread holds exactly the i-1 actions of the earlier iterations.
C3_LoopDriverFailure ==
    LET i == Len(driver_log)
    IN  (i >= 1 /\ IsLeft(driver_log[i].resp))
        => /\ pc = "returned"
           /\ result = Left(driver_log[i].resp.error)
           /\ calls = i
           /\ AppendedFirst(i - 1)

\* C3 witness: the second driver call returned Left("boom") after one
\* action was appended.
C3_Witness ==
    /\ Len(driver_log) = 2
    /\ driver_log[2].resp = Left(<<"boom">>)
    /\ result = Left(<<"boom">>)
    /\ pc = "returned"
    /\ Len(thread.actions) = Len(thread0) + 1

\* C4: when executing the action of the i-th driver call raises, loop has
\* returned a Left whose message contains the action's class name and the
\* text of the error raised, the failing action is not appended (the thread
\* holds the i-1 earlier actions only), and no further driver call is made.
C4_LoopExecutionFailure ==
    LET i == Len(driver_log)
    IN  (i >= 1 /\ ~IsLeft(driver_log[i].resp) /\ LogCompute(i).raised)
        => /\ pc = "returned"
           /\ result.tag = "Left"
           /\ Contains(result.error, LogAction(i).cls)
           /\ Contains(result.error, LogCompute(i).err)
           /\ calls = i
           /\ AppendedFirst(i - 1)

\* C4 witness: the driver returned Add(1,2), then Divide(1,0); loop has
\* returned a Left naming Divide and the division by zero.
C4_Witness ==
    /\ Len(driver_log) = 2
    /\ LogAction(1) = Add(1, 2)
    /\ LogAction(2) = Divide(1, 0)
    /\ pc = "returned"
    /\ result.tag = "Left"
    /\ Contains(result.error, "Divide")
    /\ Contains(result.error, DivisionByZero)
    /\ Len(thread.actions) = Len(thread0) + 1

\* C11: when the context's driver name is not a key of DRIVERS and the budget
\* lets the loop look the driver up, loop ends by returning a Left that carries
\* the unknown-driver message, with no driver call, no action appended and
\* nothing leaving the loop as an exception.
C11_UnknownDriverReturnsLeft ==
    ( /\ ctx_driver \notin DRIVERS
      /\ max_actions >= 1
      /\ pc \in {"returned", "raised"} )
    => /\ pc = "returned"
       /\ result.tag = "Left"
       /\ Contains(result.error, "Unknown driver: ")
       /\ Contains(result.error, ctx_driver)
       /\ calls = 0
       /\ thread.actions = thread0

\* s is an initial part of t
IsPrefix(s, t) ==
    /\ Len(s) <= Len(t)
    /\ \A i \in 1..Len(s) : t[i] = s[i]

\* C17: the thread history is append-only: in every step of a run the action
\* sequence after the step has the sequence before it as a prefix (nothing
\* is removed, reordered or replaced), a step that changes the thread is one
\* add, which puts the action the driver just returned last and gives back
\* the same thread, and the thread's id and query never change.
C17_HistoryAppendOnly ==
    [][ /\ IsPrefix(thread.actions, thread'.actions)
        /\ thread'.id = thread.id
        /\ thread'.query = thread.query
        /\ thread' # thread =>
              /\ Len(thread'.actions) = Len(thread.actions) + 1
              /\ thread' = ThreadAdd(thread, thread'.actions[Len(thread'.actions)])
              /\ Unexecuted(thread'.actions[Len(thread'.actions)])
                    = driver_log'[Len(driver_log')].resp.value ]_vars

\* C17 witness: a thread that held one action when loop was called has had
\* two more added by two iterations
C17_Witness ==
    /\ Len(thread0) = 1
    /\ Len(thread.actions) = 3
    /\ iteration = 2

\* the actions appended since loop was called
Appended == SubSeq(thread.actions, Len(thread0) + 1, Len(thread.actions))

\* C24: whenever loop returns Right(a), a is a Done action, a is the object
\* execute left behind for the action the last driver call returned (its
\* output, when there is one, is its result), and a is the last element of
\* the thread's action list; loop never returns Right for another action,
\* and no iteration follows the append of a Done: a Done among the appended
\* actions is the last one and loop has returned it.
C24_LoopSuccessInvariant ==
    /\ (pc = "returned" /\ result.tag = "Right") =>
          LET a == result.value
              n == Len(driver_log)
          IN  /\ IsDone(a)
              /\ a.cls = "Done"
              /\ n = calls /\ n >= 1
              /\ a = Execute(LogAction(n),
                             KwargsFor(LogAction(n), driver_log[n].answer)).action
              /\ a.output # None => Result(a) = a.output
              /\ Appended # <<>>
              /\ thread.actions[Len(thread.actions)] = a
    /\ \A i \in DOMAIN Appended :
          Appended[i].cls = "Done"
          => /\ i = Len(Appended)
             /\ pc = "returned"
             /\ result = Right(Appended[i])

\* C24 witness: after two other actions the driver returned Done(3) and loop
\* returned it
C24_Witness ==
    /\ pc = "returned"
    /\ result.tag = "Right"
    /\ result.value.output = Num(3)
    /\ Len(Appended) = 3
    /\ Appended[2].cls = "AskUser"

\* C25: for every behaviour of the driver and every max_actions = N >= 0,
\* loop makes at most N driver calls and appends at most N actions, and it
\* ends: it returns, unless no step function is registered for the driver or
\* a call of the step function raised; with N = 0 it returns the
\* budget-exceeded Left without calling the driver.
C25_LoopTermination ==
    /\ [](pc # "start" => /\ calls <= max_actions
                          /\ Len(Appended) <= calls
                          /\ Len(Appended) <= max_actions)
    /\ []((pc \notin {"start", "top"} /\ max_actions = 0)
          => /\ pc = "returned"
             /\ result = Left(ExceededMsg(0))
             /\ calls = 0
             /\ Appended = <<>>)
    /\ [](pc = "raised" => (ctx_driver \notin DRIVERS \/ Len(driver_log) < calls))
    /\ <>(pc \in {"returned", "raised"})

\* C25 witness: with max_actions = 3 the driver returned three actions that
\* were not Done and loop returned the budget-exceeded Left
C25_Witness ==
    /\ pc = "returned"
    /\ max_actions = 3
    /\ calls = 3
    /\ Len(Appended) = 3
    /\ result = Left(ExceededMsg(3))

-----------------------------------------------------------------------------
(* Properties of Action.execute and Action.result, checked under SpecAction *)

\* C5: execute is idempotent and computes exactly once: when the first call
\* of execute returned and the second call was made with the same
\* capabilities, the second call returns the identical result and
\* _compute_result has run exactly once.
C5_ExecuteIdempotentOnce ==
    ( /\ Len(returns) >= 2
      /\ ~returns[1].out.raised
      /\ returns[2].kwargs = returns[1].kwargs )
    => /\ returns[2].out = returns[1].out
       /\ compute_calls = 1

\* C6: result reads the sentinel "Not yet calculated" as long as no execute
\* has returned, and once an execute has returned it reads exactly the value
\* that execute returned.
C6_ResultSentinel ==
    /\ (\A i \in DOMAIN returns : returns[i].out.raised) => Result(act) = Sentinel
    /\ \A i \in DOMAIN returns :
          ~returns[i].out.raised => Result(act) = returns[i].out.value

\* C14: for every a, every execute of Divide(a, 0) fails with the
\* division-by-zero error and caches nothing (r stays None, result reads the
\* sentinel, the next execute fails again); for every b # 0, every execute
\* of Divide(a, b) returns the number a / b.
C14_Divide ==
    act.cls = "Divide" =>
       \A i \in DOMAIN returns :
          IF act.b = 0
          THEN /\ returns[i].out = Raised(DivisionByZero)
               /\ act.r = None
               /\ Result(act) = Sentinel
          ELSE /\ ~returns[i].out.raised
               /\ returns[i].out.value.t = "num"
               /\ returns[i].out.value.d # 0
               /\ returns[i].out.value.n * act.b = act.a * returns[i].out.value.d

\* C14 witness: Divide(3, 0) was executed twice
C14_Witness ==
    /\ act.cls = "Divide" /\ act.a = 3 /\ act.b = 0
    /\ Len(returns) = 2
    /\ returns[2].out.raised

\* the calls of execute that passed an io capability
WithIO == {i \in DOMAIN returns : returns[i].kwargs.has_io}

\* C15: every execute of an AskUser before the first one that passes io fails
\* with the missing-capability error and caches nothing; the first execute
\* that passes io returns what io.prompt(request) answered; and the user is
\* prompted with exactly the request text, once for the instance, however
\* often execute is called.
C15_AskUserCapability ==
    act.cls = "AskUser" =>
       /\ \A i \in DOMAIN returns :
             (\A j \in 1..i : j \notin WithIO)
             => returns[i].out = Raised(MissingIO)
       /\ \A i \in WithIO :
             (\A j \in 1..(i - 1) : j \notin WithIO)
             => returns[i].out = Returned(Str(returns[i].kwargs.answer))
       /\ WithIO = {} => /\ act.r = None
                         /\ Result(act) = Sentinel
       /\ io_prompts = IF WithIO = {} THEN <<>> ELSE <<act.request>>

\* C15 witness: execute without io failed, execute(io=...) then prompted and
\* succeeded, and a third execute was made
C15_Witness ==
    /\ act.cls = "AskUser"
    /\ Len(returns) = 3
    /\ returns[1].out.raised
    /\ WithIO = {2, 3}
    /\ returns[2].out = Returned(Str("John"))
    /\ Len(io_prompts) = 1

\* C22: for every operand pair (a, b), positive, negative and zero values
\* included, every execute of Add(a, b) returns a + b, of Subtract(a, b)
\* returns a - b and of Multiply(a, b) returns a * b, and none of them fails,
\* with or without capabilities.
C22_Arithmetic ==
    act.cls \in {"Add", "Subtract", "Multiply"} =>
       \A i \in DOMAIN returns :
          /\ ~returns[i].out.raised
          /\ returns[i].out.value.t = "num"
          /\ returns[i].out.value.d = 1
          /\ returns[i].out.value.n =
                CASE act.cls = "Add"      -> act.a + act.b
                  [] act.cls = "Subtract" -> act.a - act.b
                  [] act.cls = "Multiply" -> act.a * act.b

\* C22 witness: Subtract(-2, 3) was executed twice and gave -5 both times
C22_Witness ==
    /\ act.cls = "Subtract" /\ act.a = -2 /\ act.b = 3
    /\ Len(returns) = 2
    /\ returns[1].out = Returned(Num(-5))
    /\ returns[2].out = Returned(Num(-5))

\* C23: str() of an executed arithmetic action is exactly
\* "<Name>(a=<a>, b=<b>), result=<result>", and str() of an executed AskUser
\* is exactly "RequestUserInput(request=<request>), result=<answer>", with
\* no further characters.
C23_Rendering ==
    act.r # None =>
       /\ act.cls \in {"Add", "Subtract", "Multiply", "Divide"}
          => ActionStr(act) =
                <<act.cls, "(a=">> \o FloatText(act.a, 1) \o <<", b=">>
                \o FloatText(act.b, 1) \o <<"), result=">> \o ValueText(act.r)
       /\ act.cls = "AskUser"
          => ActionStr(act) =
                <<"RequestUserInput(request=", act.request, "), result=", act.r.s>>

-----------------------------------------------------------------------------
(* Properties of the thread store, checked under SpecStore                  *)

SetMax(S) == CHOOSE x \in S : \A y \in S : y <= x

\* among the first n completed mutations, the last clear made through
\* instance store (0: none)
LastClear(store, n) ==
    SetMax({0} \cup {i \in 1..n : ops[i].op = "clear" /\ ops[i].store = store})

\* the Thread object most recently added under id through instance store
\* after its most recent clear, among the first n completed mutations (0: none)
AddedSinceClear(store, id, n) ==
    LET adds == {i \in (LastClear(store, n) + 1)..n :
                    ops[i].op = "add" /\ ops[i].store = store /\ ops[i].id = id}
    IN  IF adds = {} THEN 0 ELSE ops[SetMax(adds)].obj

\* C7: a get(id) on a store that runs after a sequence of add and clear
\* operations (none completing while it runs) returns Right(t) exactly when
\* a thread with that id was added to the store after its most recent clear,
\* t being the thread most recently added under that id, and returns
\* Left(not found) for every other id.
C7_StoreRoundTrip ==
    \A c \in Callers :
        (cret[c].call = "get" /\ cret[c].n0 = cret[c].n1)
        => LET t == AddedSinceClear(cret[c].store, cret[c].id, cret[c].n1)
           IN  IF t # 0
               THEN cret[c].kind = "Right" /\ cret[c].obj = t
               ELSE cret[c].kind = "Left"
                    /\ cret[c].error = NotFoundMsg(cret[c].id)

\* C8: at most one add or clear mutation of the id-to-thread mapping is in
\* progress at any time, whatever the number of callers and of store
\* instances.
C8_MutualExclusion ==
    Cardinality({c \in Callers : cpc[c] \in {"add_locked", "clear_locked"}}) <= 1

\* C9: under every interleaving with add and clear, a get completes by
\* returning Right(thread) or Left(not found); it never raises.
C9_GetNeverRaises ==
    \A c \in Callers : cret[c].call = "get" => cret[c].kind \in {"Right", "Left"}

\* C10: any two distinct Thread objects have different ids, so an add never
\* replaces a different thread that is stored: two adds under the same id
\* with no clear between them are adds of the same Thread object.
C10_ThreadIdsUnique ==
    /\ \A o1, o2 \in 1..Len(heap) : o1 # o2 => heap[o1].id # heap[o2].id
    /\ \A i, j \in DOMAIN ops :
          ( /\ i < j
            /\ ops[i].op = "add" /\ ops[j].op = "add"
            /\ ops[i].id = ops[j].id
            /\ \A m \in i..j : ops[m].op # "clear" )
          => ops[i].obj = ops[j].obj

\* C29: store instances are independent: an instance through which nothing
\* was added yet holds no thread, whatever was added through the other
\* instances, and an add or a clear on one instance leaves what get returns
\* on every other instance as it was.
C29_StoresIndependent ==
    /\ [](\A s \in Stores :
             (\A i \in DOMAIN ops : ops[i].store # s)
             => \A id \in IdSpace : ThreadsOf(s)[id] = 0)
    /\ [][\A s \in Stores :
             (Len(ops') > Len(ops) /\ ops'[Len(ops')].store # s)
             => ThreadsOf(s)' = ThreadsOf(s)]_vars

-----------------------------------------------------------------------------
(* Properties of Either, checked under SpecEither                           *)

\* the invocations made by the first n method calls of the chain
RECURSIVE InvokedBy(_)
InvokedBy(n) == IF n = 0 THEN <<>> ELSE InvokedBy(n - 1) \o e_ops[n].calls

\* C18: Right(x).map(f).map(g) equals Right(g(f(x))); Right(x).flat_map(f)
\* is f(x) itself, a Left when f returns one; Left(e).map(f) and
\* Left(e).flat_map(f), and any chain of them on Left(e), return the Left
\* with the error e unchanged and never invoke f.
C18_MapFlatMapLaws ==
    /\ ( /\ e_input.tag = "Right"
         /\ Len(e_ops) = 2
         /\ e_ops[1].m = "map" /\ e_ops[2].m = "map" )
       => e_self = Right(Apply(e_ops[2].f, Apply(e_ops[1].f, e_input.value)))
    /\ ( /\ e_input.tag = "Right"
         /\ Len(e_ops) = 1
         /\ e_ops[1].m = "flat_map" )
       => /\ e_self = ApplyK(e_ops[1].f, e_input.value)
          /\ e_self.tag \in {"Left", "Right"}
          /\ e_self.tag = "Right" => e_self.value.t = "num"
    /\ ( /\ e_input.tag = "Left"
         /\ \A i \in DOMAIN e_ops : e_ops[i].m \in {"map", "flat_map"} )
       => /\ e_self = e_input
          /\ InvokedBy(Len(e_ops)) = <<>>

\* C18 witness: Right(42).map(double).map(incr) was evaluated to Right(85)
C18_Witness ==
    /\ e_input = Right(Num(42))
    /\ Len(e_ops) = 2
    /\ e_ops[1] = MethodCall("map", "double", "", <<Invocation("double", Num(42), <<>>)>>)
    /\ e_ops[2].m = "map" /\ e_ops[2].f = "incr"
    /\ e_self = Right(Num(85))

\* C19: fold applies exactly one handler: on Right(v) it returns on_right(v)
\* and on_left is not called; on Left(e) it returns on_left(e) and on_right
\* is not called.
C19_FoldOneHandler ==
    Folded =>
       LET call == e_ops[Len(e_ops)]
       IN  IF e_self.tag = "Right"
           THEN /\ e_out = OnRightApply(call.g, e_self.value)
                /\ call.calls = <<Invocation(call.g, e_self.value, <<>>)>>
           ELSE /\ e_out = OnLeftApply(call.f, e_self.error)
                /\ call.calls = <<Invocation(call.f, None, e_self.error)>>

\* C19 witness: a Left that a flat_map made of a Right was folded, and only
\* on_left was called
C19_Witness ==
    /\ Folded
    /\ e_input.tag = "Right"
    /\ e_self = Left(<<"converted to error">>)
    /\ e_ops[Len(e_ops)].f = "length"
    /\ e_out = Num(1)

-----------------------------------------------------------------------------
(* Properties of the drivers, checked under SpecDriver                      *)

\* C12: a driver's step never raises: whatever fails in loading the prompt
\* templates, in the completion call, in parsing the reply or in converting
\* it to an action, a call of step ends by returning a Left or a Right.
C12_StepNeverRaises ==
    step_pc \in {"returned", "raised"}
    => /\ step_pc = "returned"
       /\ step_out.tag \in {"Left", "Right"}

\* step got as far as convert_to_action: the reply was parsed to an object
Converted ==
    /\ step_pc = "returned"
    /\ GetCompletion(step_driver, step_reply).tag = "Right"
    /\ ParseCompletion(step_driver, step_reply).tag = "Right"

\* the object convert_to_action was given
ConvertedJson == ParseCompletion(step_driver, step_reply).value

\* the six variant names
VariantNames == {"Add", "Subtract", "Multiply", "Divide", "AskUser", "Done"}

\* C16: convert_to_action returns Right(action) only when the value of
\* "action" is, letter for letter, one of the six variant names and the
\* arguments validate, and the action is then of exactly that variant; for
\* every other name, a missing name included, it returns
\* Left("Unknown action type: ..."); for arguments that do not validate it
\* returns a Left; it never returns another variant and never raises.
C16_ClosedActionSet ==
    Converted =>
       LET json_obj  == ConvertedJson
           named     == json_obj.has_action /\ json_obj.action \in VariantNames
           arguments == IF json_obj.has_arguments THEN json_obj.arguments
                        ELSE EmptyDict
       IN  /\ step_out.tag \in {"Left", "Right"}
           /\ step_out.tag = "Right"
              <=> (named /\ Validates(json_obj.action, arguments))
           /\ step_out.tag = "Right" => step_out.value.cls = json_obj.action
           /\ ~named => /\ step_out.tag = "Left"
                        /\ step_out.error[1] = "Unknown action type: "
           /\ (named /\ ~Validates(json_obj.action, arguments))
              => step_out.tag = "Left"

\* C16 witness: the reply named "add" with arguments that an Add would
\* accept, and convert_to_action answered with the unknown-action Left
C16_Witness ==
    /\ Converted
    /\ ConvertedJson = JsonObj(TRUE, "add", TRUE,
                          Arguments(Num(1), Num(2), Absent, Absent, Absent))
    /\ step_out = Left(<<"Unknown action type: ", "add">>)

-----------------------------------------------------------------------------
(* Properties of concurrent requests, checked under SpecIsolation           *)

\* C13: when requests that selected different drivers are served
\* concurrently, every driver-dependent value a request uses during its loop
\* is the one of its own driver: the step function of each iteration, the
\* model name of each iteration and max_actions are what the configuration
\* gives for the driver the request selected, whatever driver another
\* request selects meanwhile.
C13_DriverIsolation ==
    \A t \in Tasks :
       /\ req_pc[t] # "new" =>
             req_max_actions[t] =
                ConfigGet(config, req_driver[t], "max_actions",
                          Num(DefaultMaxActions)).n
       /\ \A i \in DOMAIN req_used[t] :
             /\ req_used[t][i].step = req_driver[t]
             /\ req_used[t][i].model =
                   ConfigGet(config, req_driver[t], "model", None)

-----------------------------------------------------------------------------
(* Properties of the command line, checked under SpecCli                    *)

\* C20: process returns 0 exactly when go returned a Right, and returns 1 in
\* every other case, that is when go returned a Left or when
\* Config.set_driver rejected the driver name; in the latter case no thread
\* was created or stored.
C20_CliOutcome ==
    cli_pc \in {"exit", "raised"}
    => LET go_right == pc = "returned" /\ result.tag = "Right"
       IN  /\ cli_pc = "exit"
           /\ cli_ret = Num(0) <=> go_right
           /\ ~go_right => cli_ret = Num(1)
           /\ SetDriverRaises(config, cli_driver)
              => /\ cli_stored = {}
                 /\ pc = "idle"

-----------------------------------------------------------------------------
(* Properties of Config, checked under SpecConfig                           *)

\* the driver selected by the last set_driver among the first n calls that
\* did not raise; "openai" when there is none
RECURSIVE Selected(_)
Selected(n) ==
    IF n = 0 THEN "openai"
    ELSE IF cfg_calls[n].op = "set_driver" /\ ~cfg_calls[n].raised
    THEN cfg_calls[n].arg
    ELSE Selected(n - 1)

\* the section has the key
HasKey(section, key) == section \in DOMAIN config /\ key \in DOMAIN config[section]

\* C21: Config.get(key, default) returns the value of the active driver's
\* section when that section has the key, otherwise the value of the section
\* "default" when it has the key, otherwise the caller's default; the active
\* driver is the one of the last set_driver that succeeded; set_driver with
\* a name that is neither a section nor "default" raises and leaves the
\* active driver unchanged, and every other set_driver succeeds.
C21_ConfigLookupOrder ==
    /\ active_driver = Selected(Len(cfg_calls))
    /\ \A i \in DOMAIN cfg_calls :
          LET call == cfg_calls[i]
              d    == Selected(i - 1)
          IN  IF call.op = "get"
              THEN /\ ~call.raised
                   /\ HasKey(d, call.arg) => call.out = config[d][call.arg]
                   /\ (~HasKey(d, call.arg) /\ HasKey("default", call.arg))
                      => call.out = config["default"][call.arg]
                   /\ (~HasKey(d, call.arg) /\ ~HasKey("default", call.arg))
                      => call.out = call.default
              ELSE /\ call.raised
                      <=> (call.arg \notin DOMAIN config /\ call.arg # "default")
                   /\ call.raised => call.active1 = call.active0
                   /\ ~call.raised => call.active1 = call.arg

\* C21 witness: with a default section that has "model" too, a rejected
\* set_driver("gemini"), then set_driver("anthropic"), then get("model")
\* answering with the anthropic section's model
C21_Witness ==
    /\ HasKey("default", "model")
    /\ Len(cfg_calls) = 3
    /\ cfg_calls[1].op = "set_driver" /\ cfg_calls[1].raised
    /\ cfg_calls[2].op = "set_driver" /\ cfg_calls[2].arg = "anthropic"
    /\ cfg_calls[3].op = "get" /\ cfg_calls[3].arg = "model"
    /\ cfg_calls[3].out = Str("claude-3-haiku")


-----------------------------------------------------------------------------
(* Properties of the BAML variant's run, checked under SpecRun              *)

\* C26: run stops after a bounded number of model calls whatever the model
\* answers: every call of run comes to an end (it returns, or an exception
\* leaves it), also when the model answers with arithmetic intents only.
C26_RunTermination == <>(run_pc \in {"returned", "raised"})


-----------------------------------------------------------------------------
(* Properties of go and of concurrent loops, checked under SpecGo           *)

\* the actions a loop executed and appended, given what the step function
\* returned to it call by call
RECURSIVE ExecutedBy(_)
ExecutedBy(log) ==
    IF log = <<>> THEN <<>>
    ELSE LET last == log[Len(log)]
             e == Execute(last.resp.value, KwargsFor(last.resp.value, last.answer))
         IN  ExecutedBy(SubSeq(log, 1, Len(log) - 1))
             \o (IF IsLeft(last.resp) \/ e.out.raised THEN <<>> ELSE <<e.action>>)

\* the step of go(ctx, thread_id) that call g takes
GoStep(g) == go'[g] # go[g]

\* C27: when thread_id is not in the store of the context, go returns the
\* Left of the store with its message unchanged, calls no driver, executes
\* no action and leaves the store's mapping and the threads as they were.
C27_GoUnknownThread ==
    [][\A g \in GoTasks :
          (go[g].pc = "go" /\ go_store[go[g].id] = 0 /\ GoStep(g))
          => /\ go'[g].pc = "returned"
             /\ go'[g].ret =
                   Left(<<"Thread with ID ", go[g].id, " not found in store.">>)
             /\ go'[g].calls = 0 /\ go'[g].log = <<>> /\ go'[g].obj = 0
             /\ go_store' = go_store
             /\ go_heap' = go_heap]_vars

\* C27 witness: a go called with an id the store does not have has returned
\* the Left, while the store holds a thread under the other id
C27_Witness ==
    \E g \in GoTasks :
        /\ go[g].pc = "returned" /\ go[g].obj = 0
        /\ go[g].ret = Left(NotFoundMsg(go[g].id))
        /\ go_store[go[g].id] = 0
        /\ \E id \in IdSpace : go_store[id] # 0

\* C28: when go(ctx, id) returns, a Right or a Left, store.get(id) yields
\* the thread whose actions are those it had before the call followed by
\* exactly the actions the loop executed and appended, in order: what was
\* appended before a failure is kept, and nothing has to be added to the
\* store again.
C28_HistoryThroughStore ==
    [][\A g \in GoTasks :
          (go[g].pc \in {"top", "await"} /\ go'[g].pc = "returned")
          => LET id == go[g].id
             IN  /\ go_store'[id] # 0
                 /\ go_heap'[go_store'[id]].actions =
                       go[g].before \o ExecutedBy(go'[g].log)]_vars

\* C30: a step of a loop on one thread leaves the store's mapping as it
\* was, creates no thread, changes no other thread, and leaves the id and
\* the query of its own thread alone, however the loops interleave; and the
\* actions of each thread are as many as the loops that ran on it appended.
C30_RunsAreLocal ==
    /\ [][\A g \in GoTasks :
             (go[g].pc \in {"top", "await"} /\ GoStep(g))
             => /\ go_store' = go_store
                /\ Len(go_heap') = Len(go_heap)
                /\ \A o \in DOMAIN go_heap :
                      /\ o # go[g].obj => go_heap'[o] = go_heap[o]
                      /\ go_heap'[o].id = go_heap[o].id
                      /\ go_heap'[o].query = go_heap[o].query
                /\ go_heap'[go[g].obj].actions =
                      go_heap[go[g].obj].actions
                      \o SubSeq(ExecutedBy(go'[g].log),
                                Len(ExecutedBy(go[g].log)) + 1,
                                Len(ExecutedBy(go'[g].log)))]_vars
    /\ [](\A o \in DOMAIN go_heap :
             \A g \in GoTasks :
                (go[g].obj = o /\ \A h \in GoTasks \ {g} : go[h].obj # o)
                => go_heap[o].actions = go[g].before \o ExecutedBy(go[g].log))

\* C30 witness: two loops on two threads with different ids have interleaved
\* at their awaits; one ended in a failure of execution after one action, the
\* other is still running with one action appended
C30_Witness ==
    /\ go["g1"].obj # 0 /\ go["g2"].obj # 0 /\ go["g1"].obj # go["g2"].obj
    /\ go["g1"].id # go["g2"].id
    /\ go["g1"].pc = "returned" /\ go["g1"].ret.tag = "Left"
    /\ Len(go["g1"].log) = 2 /\ Len(go_heap[go["g1"].obj].actions) = 1
    /\ go["g2"].pc = "await" /\ Len(go_heap[go["g2"].obj].actions) = 1

=============================================================================
